---- MODULE Spec2Model ----
(***************************************************************************)
(* Model of keras_tuner/model/model.py: the autoregressive decode loop of  *)
(* Model._generate, and the process-wide configuration functions           *)
(* set_precision and set_global_sharding_strategy.                         *)
(* Model of kithara/model/maxtext/ckpt_compatibility/param_mapping.py:     *)
(* the parameter-name tables, the hook tables and the tensor transforms.   *)
(* Model of keras_tuner/model/models/maxtext/conversion_utils.py:          *)
(* MaxTextLayer._create_variables and the forward wrapper.                 *)
(*                                                                         *)
(* Arrays are sequences of rows, a row is a sequence of integers.  Python  *)
(* indices are 0-based, TLA+ sequences 1-based: column c of the code is    *)
(* element c + 1 here.  An optional value is <<>> (None) or <<v>>.         *)
(***************************************************************************)
EXTENDS Integers, Sequences, FiniteSets, TLC

\* ------------------------------------------------------------------ bounds
MaxBatch  == 2      \* largest batch_size of a call
MaxShards == 2      \* largest size of the mesh's fsdp axis
MaxSeqLen == 3      \* largest seq_len of a call
MaxTok    == 2      \* token ids are 0..MaxTok
MaxCalls  == 2      \* generate calls made on the model instance
NumStrategies == 2  \* distinct distributions / data shardings
MaxLayers == 4      \* largest num_hidden_layers of a config
MaxRank   == 3      \* largest number of axes of a tensor
MaxElems  == 6      \* largest number of elements of a tensor
MaxLeaves == 3      \* largest number of leaves of a pytree

Vocab       == 0..MaxTok
None        == <<>>
Some(v)     == <<v>>
MaxLengths  == {None} \cup {Some(n) : n \in 0..(MaxSeqLen + 1)}
StopLists   == SUBSET (1..MaxTok)

Min(a, b) == IF a <= b THEN a ELSE b
Max(a, b) == IF a >= b THEN a ELSE b

\* ------------------------------------------------------- numpy / python
\* Python's s[start:stop] on a sequence (indices 0-based, negative indices
\* count from the end, out-of-range indices are clamped).
PyIndex(i, n) == IF i < 0 THEN Max(i + n, 0) ELSE Min(i, n)
PySlice(s, start, stop) ==
    SubSeq(s, PyIndex(start, Len(s)) + 1, PyIndex(stop, Len(s)))

\* a[:rows, start:stop] on a 2-D array
Slice2D(a, rows, start, stop) ==
    [r \in 1..Min(rows, Len(a)) |-> PySlice(a[r], start, stop)]

Width(a) == IF Len(a) = 0 THEN 0 ELSE Len(a[1])

ZeroRow(n) == [c \in 1..n |-> 0]

\* np.pad(a, ((0, pad_size), (0, 0)), mode='constant', constant_values=0)
NpPad(a, pad_size) ==
    [r \in 1..(Len(a) + pad_size) |->
        IF r <= Len(a) THEN a[r] ELSE ZeroRow(Width(a))]

\* np.roll(a, -1, axis=1)
NpRollLeft(a) ==
    [r \in 1..Len(a) |->
        [c \in 1..Len(a[r]) |->
            IF c = Len(a[r]) THEN a[r][1] ELSE a[r][c + 1]]]
\* np.roll(a, 1, axis=1)
NpRoll(a) ==
    [r \in 1..Len(a) |->
        [c \in 1..Len(a[r]) |->
            IF c = 1 THEN a[r][Len(a[r])] ELSE a[r][c - 1]]]

\* a[:, col - 1] = vals
SetColumnBefore(a, col, vals) ==
    [r \in 1..Len(a) |->
        [a[r] EXCEPT ![IF col = 0 THEN Len(a[r]) ELSE col] = vals[r]]]
\* a[:, col] = vals   (col 0-based)
SetColumn(a, col, vals) ==
    [r \in 1..Len(a) |-> [a[r] EXCEPT ![col + 1] = vals[r]]]

\* a[:, col] = v
FillColumn(a, col, v) ==
    [r \in 1..Len(a) |-> [a[r] EXCEPT ![col + 1] = v]]

\* int(np.sum(row == 1))
CountOnes(row) == Cardinality({c \in 1..Len(row) : row[c] = 1})

\* all(flags)
All(flags) == \A i \in 1..Len(flags) : flags[i]

\* ------------------------------------------------ Model._generate helpers
\* pad_size of the batch padding (0 when the shard count divides the batch)
PadSizeUnconditional(batch_size, devices) ==
    devices - (batch_size % devices)
PadSize(batch_size, devices) ==
    LET remainder == batch_size % devices
    IN  IF remainder # 0 THEN devices - remainder ELSE 0

\* generate_steps; None - int raises TypeError
GenerateStepsUncapped(seq_len_, num_tokens_, max_length) ==
    max_length[1] - num_tokens_
GenerateStepsRaises(max_length) == max_length = None
GenerateSteps(seq_len_, num_tokens_, max_length) ==
    Min(seq_len_ - num_tokens_, max_length[1] - num_tokens_)

\* the EOS check: for i, token in enumerate(next_tokens): ...
\* reached_eos[i] = True raises IndexError when i >= len(reached_eos).
RECURSIVE EosLoop(_, _, _, _)
EosLoop(i, flags, next_tokens, stops) ==
    IF i > Len(next_tokens) THEN [raised |-> FALSE, flags |-> flags]
    ELSE IF next_tokens[i] \in stops
         THEN IF i > Len(flags)
              THEN [raised |-> TRUE, flags |-> flags]
              ELSE EosLoop(i + 1, [flags EXCEPT ![i] = TRUE], next_tokens, stops)
         ELSE EosLoop(i + 1, flags, next_tokens, stops)

\* a[i] on an axis of length n: a negative index counts from the end
PyItem(i, n) == IF i < 0 THEN i + n ELSE i

\* the sequence index of logits[:, num_tokens - 1, :]; the logits have one
\* position per column of the inputs
LogitsIndexAtCursor(num_tokens_, seq_len_) == PyItem(num_tokens_, seq_len_)
LogitsIndex(num_tokens_, seq_len_) == PyItem(num_tokens_ - 1, seq_len_)

\* first column of the strip_prompt slice
StripStart(num_tokens_, generate_steps_) == num_tokens_ - generate_steps_

\* the buffer the returned padding_mask is sliced from
MaskSource(strip, tokens_, segment_ids_) ==
    IF strip THEN tokens_ ELSE segment_ids_

\* ---------------------------------------------------- set_precision helpers
Dtypes   == {"float32", "float16", "bfloat16"}
Policies == Dtypes \cup {"mixed_float16", "mixed_bfloat16"}
PrecisionArgs == {"None"} \cup Policies
DtypeArgs     == {"None"} \cup Dtypes

\* the assert of lines 261-269
ArgsAcceptedLoose(precision, weight_dtype, activation_dtype) ==
    \/ precision # "None"
    \/ weight_dtype # "None" /\ activation_dtype # "None"
ArgsAccepted(precision, weight_dtype, activation_dtype) ==
    \/ /\ precision = "None"
       /\ weight_dtype # "None"
       /\ activation_dtype # "None"
    \/ /\ precision # "None"
       /\ weight_dtype = "None"
       /\ activation_dtype = "None"

\* lines 272-281: the policy inferred from the dtypes, "ValueError" when the
\* combination is not valid
InferPrecisionAnyWeight(weight_dtype, activation_dtype) ==
    IF weight_dtype = activation_dtype THEN weight_dtype
    ELSE IF activation_dtype = "float16" THEN "mixed_float16"
    ELSE IF weight_dtype = "float32" /\ activation_dtype = "bfloat16"
         THEN "mixed_bfloat16"
    ELSE "ValueError"
InferPrecision(weight_dtype, activation_dtype) ==
    IF weight_dtype = activation_dtype THEN weight_dtype
    ELSE IF weight_dtype = "float32" /\ activation_dtype = "float16"
         THEN "mixed_float16"
    ELSE IF weight_dtype = "float32" /\ activation_dtype = "bfloat16"
         THEN "mixed_bfloat16"
    ELSE "ValueError"

\* ------------------------------------- set_global_sharding_strategy helpers
\* a ShardingStrategy: its distribution and its data_sharding
Strategies == [distribution : 1..NumStrategies, data_sharding : 1..NumStrategies]
StrategyArgs == {None} \cup {Some(st) : st \in Strategies}

\* lines 300-304: the global attributes after the call
ShardingAfterFirstWins(strategy, dist, data) ==
    IF strategy # None /\ dist = 0
    THEN [distribution  |-> strategy[1].distribution,
          DATA_SHARDING |-> strategy[1].data_sharding]
    ELSE [distribution |-> dist, DATA_SHARDING |-> data]
ShardingAfter(strategy, dist, data) ==
    IF strategy # None
    THEN [distribution  |-> strategy[1].distribution,
          DATA_SHARDING |-> strategy[1].data_sharding]
    ELSE [distribution |-> dist, DATA_SHARDING |-> data]


\* ------------------------------------------------------ parameter mapping
\* kithara/model/maxtext/ckpt_compatibility/param_mapping.py

\* a dict is the function from its keys; built from (key, value) entries in
\* order, a key keeps the last value written to it
DictKeys(entries) == {entries[i][1] : i \in DOMAIN entries}
DictOf(entries) ==
    [k \in DictKeys(entries) |->
        LET last == CHOOSE i \in DOMAIN entries :
                        /\ entries[i][1] = k
                        /\ \A j \in DOMAIN entries : entries[j][1] = k => j <= i
        IN  entries[last][2]]
\* {**a, **b}
Update(a, b) == b @@ a

\* range(start, stop, step), step > 0, as a sequence
PyRangeInclusive(start, stop, step) ==
    [j \in 1..(IF stop >= start THEN ((stop - start) \div step) + 1 ELSE 0) |->
        start + (j - 1) * step]
PyRange(start, stop, step) ==
    [j \in 1..(IF stop > start THEN (stop - start + step - 1) \div step ELSE 0) |->
        start + (j - 1) * step]

\* f"model.layers.{i}.<suffix>"
HfLayerPath(i, suffix) == "model.layers." \o ToString(i) \o "." \o suffix

\* a mapping value: one target path, or the list of the target paths of a
\* stacked key
Path(p) == [list |-> FALSE, paths |-> <<p>>]
PathList(ps) == [list |-> TRUE, paths |-> ps]
\* a hook value: one transform, or a list of transforms applied in order
Fn(f) == [list |-> FALSE, fns |-> <<f>>]
ListReversed(fs) == [list |-> TRUE, fns |-> [k \in 1..Len(fs) |-> fs[Len(fs) + 1 - k]]]
List(fs) == [list |-> TRUE, fns |-> fs]

\* a loop over layers writing one entry per row of table: the (layer, row)
\* pairs in the order the entries are written
PerLayer(layers, table) ==
    [k \in 1..(Len(layers) * Len(table)) |->
        <<layers[((k - 1) \div Len(table)) + 1],
          table[((k - 1) % Len(table)) + 1]>>]

\* lines 30-33
Gemma2StaticMapping ==
    << <<"params-token_embedder-embedding", Path("model.embed_tokens.weight")>>,
       <<"params-decoder-decoder_norm-scale", Path("model.norm.weight")>> >>

\* lines 36-116: key, range start, range step, target suffix
Gemma2ScannedMapping ==
    << <<"params-decoder-layers-pre_self_attention_norm_global-scale", 1, 2, "input_layernorm.weight">>,
       <<"params-decoder-layers-mlp_global-wo-kernel", 1, 2, "mlp.down_proj.weight">>,
       <<"params-decoder-layers-mlp_global-wi_1-kernel", 1, 2, "mlp.up_proj.weight">>,
       <<"params-decoder-layers-mlp_global-wi_0-kernel", 1, 2, "mlp.gate_proj.weight">>,
       <<"params-decoder-layers-post_self_attention_norm_global-scale", 1, 2, "post_attention_layernorm.weight">>,
       <<"params-decoder-layers-post_ffw_norm_global-scale", 1, 2, "post_feedforward_layernorm.weight">>,
       <<"params-decoder-layers-pre_ffw_norm_global-scale", 1, 2, "pre_feedforward_layernorm.weight">>,
       <<"params-decoder-layers-self_attention_global-key-kernel", 1, 2, "self_attn.k_proj.weight">>,
       <<"params-decoder-layers-self_attention_global-out-kernel", 1, 2, "self_attn.o_proj.weight">>,
       <<"params-decoder-layers-self_attention_global-query-kernel", 1, 2, "self_attn.q_proj.weight">>,
       <<"params-decoder-layers-self_attention_global-value-kernel", 1, 2, "self_attn.v_proj.weight">>,
       <<"params-decoder-layers-pre_self_attention_norm_local-scale", 0, 2, "input_layernorm.weight">>,
       <<"params-decoder-layers-mlp_local-wo-kernel", 0, 2, "mlp.down_proj.weight">>,
       <<"params-decoder-layers-mlp_local-wi_1-kernel", 0, 2, "mlp.up_proj.weight">>,
       <<"params-decoder-layers-mlp_local-wi_0-kernel", 0, 2, "mlp.gate_proj.weight">>,
       <<"params-decoder-layers-post_self_attention_norm_local-scale", 0, 2, "post_attention_layernorm.weight">>,
       <<"params-decoder-layers-post_ffw_norm_local-scale", 0, 2, "post_feedforward_layernorm.weight">>,
       <<"params-decoder-layers-pre_ffw_norm_local-scale", 0, 2, "pre_feedforward_layernorm.weight">>,
       <<"params-decoder-layers-self_attention_local-key-kernel", 0, 2, "self_attn.k_proj.weight">>,
       <<"params-decoder-layers-self_attention_local-out-kernel", 0, 2, "self_attn.o_proj.weight">>,
       <<"params-decoder-layers-self_attention_local-query-kernel", 0, 2, "self_attn.q_proj.weight">>,
       <<"params-decoder-layers-self_attention_local-value-kernel", 0, 2, "self_attn.v_proj.weight">> >>

\* lines 123-146: key after "layers_{i}-", layer index used, target suffix
Gemma2LayerMapping ==
    << <<"pre_self_attention_norm_global-scale", "global", "input_layernorm.weight">>,
       <<"mlp_global-wo-kernel", "global", "mlp.down_proj.weight">>,
       <<"mlp_global-wi_1-kernel", "global", "mlp.up_proj.weight">>,
       <<"mlp_global-wi_0-kernel", "global", "mlp.gate_proj.weight">>,
       <<"post_self_attention_norm_global-scale", "global", "post_attention_layernorm.weight">>,
       <<"post_ffw_norm_global-scale", "global", "post_feedforward_layernorm.weight">>,
       <<"pre_ffw_norm_global-scale", "global", "pre_feedforward_layernorm.weight">>,
       <<"self_attention_global-key-kernel", "global", "self_attn.k_proj.weight">>,
       <<"self_attention_global-out-kernel", "global", "self_attn.o_proj.weight">>,
       <<"self_attention_global-query-kernel", "global", "self_attn.q_proj.weight">>,
       <<"self_attention_global-value-kernel", "global", "self_attn.v_proj.weight">>,
       <<"pre_self_attention_norm_local-scale", "local", "input_layernorm.weight">>,
       <<"mlp_local-wo-kernel", "local", "mlp.down_proj.weight">>,
       <<"mlp_local-wi_1-kernel", "local", "mlp.up_proj.weight">>,
       <<"mlp_local-wi_0-kernel", "local", "mlp.gate_proj.weight">>,
       <<"post_self_attention_norm_local-scale", "local", "post_attention_layernorm.weight">>,
       <<"post_ffw_norm_local-scale", "local", "post_feedforward_layernorm.weight">>,
       <<"pre_ffw_norm_local-scale", "local", "pre_feedforward_layernorm.weight">>,
       <<"self_attention_local-key-kernel", "local", "self_attn.k_proj.weight">>,
       <<"self_attention_local-out-kernel", "local", "self_attn.o_proj.weight">>,
       <<"self_attention_local-query-kernel", "local", "self_attn.q_proj.weight">>,
       <<"self_attention_local-value-kernel", "local", "self_attn.v_proj.weight">> >>

\* lines 121-122
local_layer_idx_swapped(maxtext_layer_idx) == maxtext_layer_idx * 2 + 1
local_layer_idx(maxtext_layer_idx) == maxtext_layer_idx * 2
global_layer_idx(maxtext_layer_idx) == maxtext_layer_idx * 2 + 1

\* line 120: range(0, nlayers // 2)
Gemma2PairedLayersAll(nlayers) == PyRange(0, nlayers, 1)
Gemma2PairedLayers(nlayers) == PyRange(0, nlayers \div 2, 1)

Gemma2ScannedEntry(nlayers, row) ==
    LET layers == PyRange(row[2], nlayers, row[3])
    IN  <<row[1], PathList([j \in DOMAIN layers |-> HfLayerPath(layers[j], row[4])])>>

Gemma2LayerEntry(maxtext_layer_idx, row) ==
    <<"params-decoder-layers_" \o ToString(maxtext_layer_idx) \o "-" \o row[1],
      Path(HfLayerPath(IF row[2] = "global"
                       THEN global_layer_idx(maxtext_layer_idx)
                       ELSE local_layer_idx(maxtext_layer_idx), row[3]))>>

GEMMA2_MAXTEXT_TO_HF_PARAM_MAPPING(config, scan) ==
    LET nlayers == config.num_hidden_layers
        mapping == DictOf(Gemma2StaticMapping)
    IN  IF scan
        THEN Update(mapping,
                 DictOf([e \in DOMAIN Gemma2ScannedMapping |->
                            Gemma2ScannedEntry(nlayers, Gemma2ScannedMapping[e])]))
        ELSE Update(mapping,
                 DictOf(LET written == PerLayer(Gemma2PairedLayers(nlayers), Gemma2LayerMapping)
                        IN  [k \in DOMAIN written |->
                                Gemma2LayerEntry(written[k][1], written[k][2])]))

\* lines 272-301: key, hook
Gemma2ScannedHooks ==
    << <<"params-decoder-layers-self_attention_global-query-kernel", List(<<"reshape_kernel", "scale_query_layer">>)>>,
       <<"params-decoder-layers-self_attention_local-query-kernel", List(<<"reshape_kernel", "scale_query_layer">>)>>,
       <<"params-decoder-layers-self_attention_global-key-kernel", Fn("reshape_kernel")>>,
       <<"params-decoder-layers-self_attention_local-key-kernel", Fn("reshape_kernel")>>,
       <<"params-decoder-layers-self_attention_global-value-kernel", Fn("reshape_kernel")>>,
       <<"params-decoder-layers-self_attention_local-value-kernel", Fn("reshape_kernel")>>,
       <<"params-decoder-layers-mlp_global-wo-kernel", Fn("reshape_kernel")>>,
       <<"params-decoder-layers-mlp_global-wi_1-kernel", Fn("reshape_kernel")>>,
       <<"params-decoder-layers-mlp_global-wi_0-kernel", Fn("reshape_kernel")>>,
       <<"params-decoder-layers-self_attention_global-out-kernel", Fn("reshape_kernel")>>,
       <<"params-decoder-layers-mlp_local-wo-kernel", Fn("reshape_kernel")>>,
       <<"params-decoder-layers-mlp_local-wi_1-kernel", Fn("reshape_kernel")>>,
       <<"params-decoder-layers-mlp_local-wi_0-kernel", Fn("reshape_kernel")>>,
       <<"params-decoder-layers-self_attention_local-out-kernel", Fn("reshape_kernel")>>,
       <<"params-decoder-layers-pre_self_attention_norm_global-scale", Fn("scale_rmsnorm_layer")>>,
       <<"params-decoder-layers-post_self_attention_norm_global-scale", Fn("scale_rmsnorm_layer")>>,
       <<"params-decoder-layers-post_ffw_norm_global-scale", Fn("scale_rmsnorm_layer")>>,
       <<"params-decoder-layers-pre_ffw_norm_global-scale", Fn("scale_rmsnorm_layer")>>,
       <<"params-decoder-layers-pre_self_attention_norm_local-scale", Fn("scale_rmsnorm_layer")>>,
       <<"params-decoder-layers-post_self_attention_norm_local-scale", Fn("scale_rmsnorm_layer")>>,
       <<"params-decoder-layers-post_ffw_norm_local-scale", Fn("scale_rmsnorm_layer")>>,
       <<"params-decoder-layers-pre_ffw_norm_local-scale", Fn("scale_rmsnorm_layer")>> >>

\* lines 306-333: key after "layers_{i}-", hook
Gemma2LayerHooks ==
    << <<"self_attention_global-query-kernel", List(<<"reshape_kernel", "scale_query_layer">>)>>,
       <<"self_attention_local-query-kernel", List(<<"reshape_kernel", "scale_query_layer">>)>>,
       <<"self_attention_global-key-kernel", Fn("reshape_kernel")>>,
       <<"self_attention_local-key-kernel", Fn("reshape_kernel")>>,
       <<"self_attention_global-value-kernel", Fn("reshape_kernel")>>,
       <<"self_attention_local-value-kernel", Fn("reshape_kernel")>>,
       <<"mlp_global-wo-kernel", Fn("reshape_kernel")>>,
       <<"mlp_global-wi_1-kernel", Fn("reshape_kernel")>>,
       <<"mlp_global-wi_0-kernel", Fn("reshape_kernel")>>,
       <<"self_attention_global-out-kernel", Fn("reshape_kernel")>>,
       <<"mlp_local-wo-kernel", Fn("reshape_kernel")>>,
       <<"mlp_local-wi_1-kernel", Fn("reshape_kernel")>>,
       <<"mlp_local-wi_0-kernel", Fn("reshape_kernel")>>,
       <<"self_attention_local-out-kernel", Fn("reshape_kernel")>>,
       <<"pre_self_attention_norm_global-scale", Fn("scale_rmsnorm_layer")>>,
       <<"post_self_attention_norm_global-scale", Fn("scale_rmsnorm_layer")>>,
       <<"post_ffw_norm_global-scale", Fn("scale_rmsnorm_layer")>>,
       <<"pre_ffw_norm_global-scale", Fn("scale_rmsnorm_layer")>>,
       <<"pre_self_attention_norm_local-scale", Fn("scale_rmsnorm_layer")>>,
       <<"post_self_attention_norm_local-scale", Fn("scale_rmsnorm_layer")>>,
       <<"post_ffw_norm_local-scale", Fn("scale_rmsnorm_layer")>>,
       <<"pre_ffw_norm_local-scale", Fn("scale_rmsnorm_layer")>> >>

\* lines 266-269
Gemma2StaticHooks ==
    << <<"params-token_embedder-embedding", Fn("pad_hf_embedding_layer")>>,
       <<"params-decoder-decoder_norm-scale", Fn("scale_rmsnorm_layer")>> >>

Gemma2LayerHook(maxtext_layer_idx, row) ==
    <<"params-decoder-layers_" \o ToString(maxtext_layer_idx) \o "-" \o row[1],
      row[2]>>

GEMMA2_MAXTEXT_TO_HF_PARAM_HOOK_FN(config, scan) ==
    LET nlayers == config.num_hidden_layers
        mapping == DictOf(Gemma2StaticHooks)
    IN  IF scan
        THEN Update(mapping, DictOf(Gemma2ScannedHooks))
        ELSE Update(mapping,
                 DictOf(LET written == PerLayer(PyRange(0, nlayers \div 2, 1), Gemma2LayerHooks)
                        IN  [k \in DOMAIN written |->
                                Gemma2LayerHook(written[k][1], written[k][2])]))

\* lines 364-417: key, target suffix
Llama31ScannedMapping ==
    << <<"max_text_layer/params-decoder-layers-self_attention-query-kernel", "self_attn.q_proj.weight">>,
       <<"max_text_layer/params-decoder-layers-self_attention-key-kernel", "self_attn.k_proj.weight">>,
       <<"max_text_layer/params-decoder-layers-self_attention-value-kernel", "self_attn.v_proj.weight">>,
       <<"max_text_layer/params-decoder-layers-self_attention-out-kernel", "self_attn.o_proj.weight">>,
       <<"max_text_layer/params-decoder-layers-mlp-wi_0-kernel", "mlp.gate_proj.weight">>,
       <<"max_text_layer/params-decoder-layers-mlp-wi_1-kernel", "mlp.up_proj.weight">>,
       <<"max_text_layer/params-decoder-layers-mlp-wo-kernel", "mlp.down_proj.weight">>,
       <<"max_text_layer/params-decoder-layers-pre_self_attention_layer_norm-scale", "input_layernorm.weight">>,
       <<"max_text_layer/params-decoder-layers-post_self_attention_layer_norm-scale", "post_attention_layernorm.weight">> >>

\* lines 420-446: key after "layers_{layer_idx}-", target suffix
Llama31LayerMapping ==
    << <<"self_attention-query-kernel", "self_attn.q_proj.weight">>,
       <<"self_attention-key-kernel", "self_attn.k_proj.weight">>,
       <<"self_attention-value-kernel", "self_attn.v_proj.weight">>,
       <<"self_attention-out-kernel", "self_attn.o_proj.weight">>,
       <<"mlp-wi_0-kernel", "mlp.gate_proj.weight">>,
       <<"mlp-wi_1-kernel", "mlp.up_proj.weight">>,
       <<"mlp-wo-kernel", "mlp.down_proj.weight">>,
       <<"pre_self_attention_layer_norm-scale", "input_layernorm.weight">>,
       <<"post_self_attention_layer_norm-scale", "post_attention_layernorm.weight">> >>

\* lines 357-361
Llama31StaticMapping ==
    << <<"max_text_layer/params-token_embedder-embedding",
         Path("model.embed_tokens.weight")>>,
       <<"max_text_layer/params-decoder-logits_dense-kernel",
         Path("lm_head.weight")>>,
       <<"max_text_layer/params-decoder-decoder_norm-scale",
         Path("model.norm.weight")>> >>

Llama31ScannedEntry(n_layers, row) ==
    LET layers == PyRange(0, n_layers, 1)
    IN  <<row[1], PathList([j \in DOMAIN layers |-> HfLayerPath(layers[j], row[2])])>>

Llama31LayerEntry(layer_idx, row) ==
    <<"max_text_layer/params-decoder-layers_" \o ToString(layer_idx) \o "-" \o row[1],
      Path(HfLayerPath(layer_idx, row[2]))>>

LLAMA31_MAXTEXT_TO_HF_PARAM_MAPPING(config, scan) ==
    LET n_layers == config.num_hidden_layers
        mapping  == DictOf(Llama31StaticMapping)
    IN  IF scan
        THEN Update(mapping,
                 DictOf([e \in DOMAIN Llama31ScannedMapping |->
                            Llama31ScannedEntry(n_layers, Llama31ScannedMapping[e])]))
        ELSE Update(mapping,
                 DictOf(LET written == PerLayer(PyRange(0, n_layers, 1), Llama31LayerMapping)
                        IN  [k \in DOMAIN written |->
                                Llama31LayerEntry(written[k][1], written[k][2])]))

\* lines 516-526: key, hook
Llama31ScannedHooks ==
    << <<"max_text_layer/params-decoder-layers-self_attention-query-kernel", Fn("reshape_kernel")>>,
       <<"max_text_layer/params-decoder-layers-self_attention-key-kernel", Fn("reshape_kernel")>>,
       <<"max_text_layer/params-decoder-layers-self_attention-value-kernel", Fn("reshape_kernel")>>,
       <<"max_text_layer/params-decoder-layers-self_attention-out-kernel", Fn("reshape_kernel")>>,
       <<"max_text_layer/params-decoder-layers-mlp-wi_0-kernel", Fn("reshape_kernel")>>,
       <<"max_text_layer/params-decoder-layers-mlp-wi_1-kernel", Fn("reshape_kernel")>>,
       <<"pre_self_attention_layer_norm-scale", Fn("reshape_kernel")>>,
       <<"post_self_attention_layer_norm-scale", Fn("reshape_kernel")>>,
       <<"max_text_layer/params-decoder-layers-pre_self_attention_layer_norm-scale", Fn("reshape_kernel")>>,
       <<"max_text_layer/params-decoder-layers-mlp-wo-kernel", Fn("reshape_kernel")>> >>

\* lines 512-513
Llama31StaticHooks ==
    << <<"max_text_layer/params-token_embedder-embedding", Fn("identity_transform")>>,
       <<"max_text_layer/params-decoder-logits_dense-kernel",
         Fn("transpose_transform")>> >>

\* lines 529-548: key after "layers_{layer_idx}-", hook
Llama31LayerHooks ==
    << <<"self_attention-query-kernel", Fn("reshape_kernel")>>,
       <<"self_attention-key-kernel", Fn("reshape_kernel")>>,
       <<"self_attention-value-kernel", Fn("reshape_kernel")>>,
       <<"self_attention-out-kernel", Fn("reshape_kernel")>>,
       <<"mlp-wi_0-kernel", Fn("reshape_kernel")>>,
       <<"mlp-wi_1-kernel", Fn("reshape_kernel")>>,
       <<"mlp-wo-kernel", Fn("reshape_kernel")>>,
       <<"pre_self_attention_layer_norm-scale", Fn("reshape_kernel")>>,
       <<"post_self_attention_layer_norm-scale", Fn("reshape_kernel")>> >>

Llama31LayerHook(layer_idx, row) ==
    <<"max_text_layer/params-decoder-layers_" \o ToString(layer_idx) \o "-" \o row[1],
      row[2]>>

LLAMA31_MAXTEXT_TO_HF_PARAM_HOOK_FN(config, scan) ==
    LET nlayers  == config.num_hidden_layers
        hook_fns == DictOf(Llama31StaticHooks)
    IN  IF scan
        THEN Update(hook_fns, DictOf(Llama31ScannedHooks))
        ELSE Update(hook_fns,
                 DictOf(LET written == PerLayer(PyRange(0, nlayers, 1), Llama31LayerHooks)
                        IN  [k \in DOMAIN written |->
                                Llama31LayerHook(written[k][1], written[k][2])]))

\* lines 552-568: the builders of every supported model
Gemma2Models  == {"GEMMA2_2B", "GEMMA2_9B", "GEMMA2_27B"}
Llama31Models == {"LLAMA31_8B", "LLAMA31_70B", "LLAMA31_405B"}
SupportedModels == Gemma2Models \cup Llama31Models
PARAM_MAPPING(model, config, scan) ==
    IF model \in Gemma2Models
    THEN GEMMA2_MAXTEXT_TO_HF_PARAM_MAPPING(config, scan)
    ELSE LLAMA31_MAXTEXT_TO_HF_PARAM_MAPPING(config, scan)
HOOK_FNS(model, config, scan) ==
    IF model \in Gemma2Models
    THEN GEMMA2_MAXTEXT_TO_HF_PARAM_HOOK_FN(config, scan)
    ELSE LLAMA31_MAXTEXT_TO_HF_PARAM_HOOK_FN(config, scan)


\* ------------------------------------------------------ tensor transforms
\* A tensor is its shape and its elements in row-major (C) order; a call that
\* raises yields the exception's name in error and no tensor.  Elements are
\* exact rationals num / den (den > 0, lowest terms): float rounding is left
\* out, so a scale factor and its reciprocal cancel exactly.
Tensor(shape, data) == [error |-> "", shape |-> shape, data |-> data]
Raise(e) == [error |-> e, shape |-> <<>>, data |-> <<>>]
Ok(t) == t.error = ""

RECURSIVE GCD(_, _)
GCD(a, b) == IF b = 0 THEN a ELSE GCD(b, a % b)
Rat(n, d) ==
    LET g == GCD(IF n < 0 THEN -n ELSE n, d)
    IN  [num |-> n \div g, den |-> d \div g]
Times(v, k)   == Rat(v.num * k, v.den)
Over(v, k)    == Rat(v.num, v.den * k)
Plus(v, k)    == Rat(v.num + k * v.den, v.den)
\* n ** 0.5 for the perfect squares the configs use
Sqrt(n) == CHOOSE r \in 0..n : r * r = n

RECURSIVE Size(_)
Size(shape) == IF shape = <<>> THEN 1 ELSE Head(shape) * Size(Tail(shape))
\* np.flip(shape)
Flip(shape) == [d \in 1..Len(shape) |-> shape[Len(shape) + 1 - d]]
\* the multi-index (0-based) of the k-th element (0-based) and back
Stride(shape, d) == Size(SubSeq(shape, d + 1, Len(shape)))
Unravel(k, shape) ==
    [d \in 1..Len(shape) |-> (k \div Stride(shape, d)) % shape[d]]
RECURSIVE RavelFrom(_, _, _)
RavelFrom(idx, shape, d) ==
    IF d > Len(shape) THEN 0
    ELSE idx[d] * Stride(shape, d) + RavelFrom(idx, shape, d + 1)
Ravel(idx, shape) == RavelFrom(idx, shape, 1)
At(t, idx) == t.data[Ravel(idx, t.shape) + 1]

\* x.reshape(shape): the same elements in the same order, ValueError when the
\* element counts differ
NpReshape(t, shape) ==
    IF ~Ok(t) THEN t
    ELSE IF Size(shape) # Len(t.data) THEN Raise("ValueError")
    ELSE Tensor(shape, t.data)
\* x.transpose(): the axes reversed
NpTranspose(t) ==
    IF ~Ok(t) THEN t
    ELSE LET shape == Flip(t.shape)
         IN  Tensor(shape, [k \in DOMAIN t.data |->
                               At(t, Flip(Unravel(k - 1, shape)))])

\* lines 197-225, on a 2-D tensor and a 2-D target shape
pad_hf_embedding_layer_noscale(config, to_hf, input_tensor, target_shape) ==
    IF to_hf
    THEN LET shape == <<Min(input_tensor.shape[1], target_shape[1]),
                        Min(input_tensor.shape[2], target_shape[2])>>
         IN  Tensor(shape, [k \in 1..Size(shape) |->
                 Over(At(input_tensor, Unravel(k - 1, shape)),
                      Sqrt(config.hidden_size))])
    ELSE IF \/ input_tensor.shape[1] > target_shape[1]
            \/ input_tensor.shape[2] > target_shape[2]
         THEN Raise("ValueError")
         ELSE Tensor(target_shape, [k \in 1..Size(target_shape) |->
                 LET idx == Unravel(k - 1, target_shape)
                 IN  IF idx[1] < input_tensor.shape[1] /\ idx[2] < input_tensor.shape[2]
                     THEN At(input_tensor, idx)
                     ELSE Rat(0, 1)])
pad_hf_embedding_layer(config, to_hf, input_tensor, target_shape) ==
    LET normalizer == Sqrt(config.hidden_size)
    IN  IF to_hf
        THEN \* input_tensor[: target_shape[0], : target_shape[1]] / normalizer
             LET shape == <<Min(input_tensor.shape[1], target_shape[1]),
                            Min(input_tensor.shape[2], target_shape[2])>>
             IN  Tensor(shape, [k \in 1..Size(shape) |->
                     Over(At(input_tensor, Unravel(k - 1, shape)), normalizer)])
        ELSE \* target_tensor[: shape[0], : shape[1]] = input_tensor
             IF \/ input_tensor.shape[1] > target_shape[1]
                \/ input_tensor.shape[2] > target_shape[2]
             THEN Raise("ValueError")
             ELSE Tensor(target_shape, [k \in 1..Size(target_shape) |->
                     LET idx == Unravel(k - 1, target_shape)
                     IN  IF /\ idx[1] < input_tensor.shape[1]
                            /\ idx[2] < input_tensor.shape[2]
                         THEN Times(At(input_tensor, idx), normalizer)
                         ELSE Times(Rat(0, 1), normalizer)])

\* lines 227-238 and 490-501
reshape_kernel_noflip(to_hf, input_tensor, target_shape) ==
    IF to_hf
    THEN NpTranspose(NpReshape(input_tensor, target_shape))
    ELSE NpReshape(NpTranspose(input_tensor), target_shape)
reshape_kernel(to_hf, input_tensor, target_shape) ==
    IF to_hf
    THEN NpTranspose(NpReshape(input_tensor, Flip(target_shape)))
    ELSE NpReshape(NpTranspose(input_tensor), target_shape)

\* lines 240-250
scale_rmsnorm_layer(to_hf, input_tensor, target_shape) ==
    LET shifted(c) == Tensor(input_tensor.shape,
                             [k \in DOMAIN input_tensor.data |->
                                 Plus(input_tensor.data[k], c)])
    IN  IF to_hf
        THEN NpReshape(shifted(-1), target_shape)
        ELSE NpReshape(shifted(1), target_shape)

\* lines 252-264
scale_query_layer(config, to_hf, input_tensor, target_shape) ==
    LET depth_scale == Sqrt(config.head_dim)
    IN  Tensor(input_tensor.shape,
               [k \in DOMAIN input_tensor.data |->
                   IF to_hf THEN Times(input_tensor.data[k], depth_scale)
                   ELSE Over(input_tensor.data[k], depth_scale)])

\* lines 504-505
identity_transform(input_array, target_shape) == input_array
\* lines 507-510
transpose_transform(input_array, target_shape) == NpTranspose(input_array)

\* the closure a hook table holds under the name fn, applied to a tensor
HookNames ==
    {"pad_hf_embedding_layer", "reshape_kernel", "scale_rmsnorm_layer",
     "scale_query_layer", "identity_transform", "transpose_transform"}
ApplyHook(fn, config, to_hf, x, shape) ==
    CASE fn = "pad_hf_embedding_layer" -> pad_hf_embedding_layer(config, to_hf, x, shape)
      [] fn = "reshape_kernel"         -> reshape_kernel(to_hf, x, shape)
      [] fn = "scale_rmsnorm_layer"    -> scale_rmsnorm_layer(to_hf, x, shape)
      [] fn = "scale_query_layer"      -> scale_query_layer(config, to_hf, x, shape)
      [] fn = "identity_transform"     -> identity_transform(x, shape)
      [] fn = "transpose_transform"    -> transpose_transform(x, shape)


\* ------------------------------------------------------ variable adapter
\* keras_tuner/model/models/maxtext/conversion_utils.py, MaxTextLayer
\* A pytree of nested dicts is the function from the paths of its leaves (a
\* prefix-free set of key sequences) to the leaves.  PathOrder lists the
\* paths a tree may have in the order jax traverses them (dict keys sorted).
PathOrder ==
    << <<"decoder">>, <<"decoder", "layers">>, <<"decoder", "layers", "kernel">>,
       <<"decoder", "scale">>, <<"token_embedder">>,
       <<"token_embedder", "embedding">> >>
IsPrefix(p, q) == Len(p) < Len(q) /\ SubSeq(q, 1, Len(p)) = p
PathSets ==
    {S \in SUBSET {PathOrder[i] : i \in DOMAIN PathOrder} :
        /\ Cardinality(S) <= MaxLeaves
        /\ \A p \in S : \A q \in S : ~IsPrefix(p, q)}
\* the leaves a tree may hold, by Python type
LeafOf(type) ==
    [type |-> type,
     shape |-> IF type \in {"jax.Array", "np.ndarray"} THEN <<2>> ELSE <<>>]
LeafValues ==
    {LeafOf(type) : type \in {"jax.Array", "np.ndarray", "np.float32", "int",
                              "float", "str"}}
Pytrees == UNION {[S -> LeafValues] : S \in PathSets}

\* line 40: "-".join(name)
RECURSIVE Join(_)
Join(name) ==
    IF name = <<>> THEN ""
    ELSE IF Len(name) = 1 THEN name[1]
    ELSE name[1] \o "-" \o Join(Tail(name))
JoinLast(name) == name[Len(name)]

\* self.add_weight(shape, initializer=value, trainable=..., name=...)
add_weight(shape, value, is_trainable, name_str) ==
    [type |-> "KerasVariable", shape |-> shape, initializer |-> value,
     trainable |-> is_trainable, name |-> name_str]

\* lines 39-52: what create_variable returns (or raises) for one leaf
Returns(result) == [error |-> "", result |-> result]
create_variable_strict(name, value, is_trainable) ==
    IF value.type \in {"jax.Array", "np.ndarray"}
    THEN Returns(add_weight(value.shape, value, is_trainable, Join(name)))
    ELSE IF value.type \in {"np.float32", "int", "float"}
    THEN Returns(add_weight(<<>>, value, is_trainable, Join(name)))
    ELSE [error |-> "TypeError", result |-> value]
create_variable_unnamed(name, value, is_trainable) ==
    IF value.type \in {"jax.Array", "np.ndarray"}
    THEN Returns(add_weight(value.shape, value, is_trainable, JoinLast(name)))
    ELSE IF value.type \in {"np.float32", "int", "float"}
    THEN Returns(add_weight(<<>>, value, is_trainable, JoinLast(name)))
    ELSE Returns(value)
create_variable(name, value, is_trainable) ==
    LET name_str == Join(name)
    IN  IF value.type \in {"jax.Array", "np.ndarray"}
        THEN Returns(add_weight(value.shape, value, is_trainable, name_str))
        ELSE IF value.type \in {"np.float32", "int", "float"}
        THEN Returns(add_weight(<<>>, value, is_trainable, name_str))
        ELSE Returns(value)

\* named_tree_map(create_variable, tree): create_variable called with the
\* path and the value of every leaf
named_tree_map(tree, is_trainable) ==
    [p \in DOMAIN tree |-> create_variable(p, tree[p], is_trainable)]

\* the leaves of a tree in traversal order (jax.tree_util.tree_flatten)
RECURSIVE FlattenFrom(_, _)
FlattenFrom(tree, i) ==
    IF i > Len(PathOrder) THEN <<>>
    ELSE (IF PathOrder[i] \in DOMAIN tree THEN <<tree[PathOrder[i]]>> ELSE <<>>)
         \o FlattenFrom(tree, i + 1)
tree_flatten(tree) == FlattenFrom(tree, 1)


\* ------------------------------------------------------------------ state
VARIABLES
    devices_in_data_fsdp, \* fsdp axis size of self.sharding_strategy's mesh
    jit_created,          \* number of jax.jit(fn) objects created so far
    pc,                   \* "idle" | "loop" | "exit" | "done" | "error"
    error,                \* exception raised by the call ("" when none)
    caller_inputs,        \* the arrays of the inputs dict as the caller passed it
    inputs,               \* the inputs dict (token_ids, padding_mask)
    max_length, stop_token_ids, strip_prompt,
    batch_size,
    segment_ids, num_tokens, seq_len, generate_steps, reached_eos,
    steps_done,           \* iterations of the for loop executed
    current_inputs,       \* the dict handed to the model in the last step
    first_inputs,         \* the dict handed to the model in the first step
    generated,            \* next_tokens of every executed step
    logits_index,         \* sequence index the last step read the logits at
    result,               \* the returned dict
    dtype_policy,         \* global attribute "dtype_policy" ("None" when unset)
    distribution,         \* global attribute "distribution" (0 when unset)
    DATA_SHARDING,        \* global attribute "DATA_SHARDING" (0 when unset)
    call,                 \* last configuration call, its outcome, the globals before it
    last_precision,       \* policy named or inferred by the last successful set_precision
    last_strategy,        \* last non-None strategy given to set_global_sharding_strategy
    model_name,           \* key of PARAM_MAPPING / HOOK_FNS
    model_config,         \* config dict handed to the table builders
    scan_layers,          \* scan_layers argument of both builders
    saving_to_hf,         \* saving_to_hf argument of the hook builder
    param_mapping,        \* PARAM_MAPPING[model_name](config, scan_layers), once built
    hook_fn_mapping,      \* HOOK_FNS[model_name](config, scan_layers, saving_to_hf)
    hook_fn,              \* name of the transform a hook table entry holds
    input_tensor,         \* the tensor handed to it
    target_shape,         \* the target_shape handed to it
    output_tensor,        \* what it returned or raised, once called
    restored_tensor,      \* the output converted back to the input's shape
    values,               \* pytree handed to MaxTextLayer._create_variables
    trainable,            \* its trainable argument
    params,               \* self.params (None until assigned)
    state,                \* self.state (None until assigned)
    weights,              \* the variables self.add_weight has created, in order
    adapt,                \* the _create_variables call: outcome, registries before it
    mesh_stack,           \* the meshes entered and not yet exited, innermost last
    axis_rules,           \* the logical axis rules in force
    fwd,                  \* the maxtext_wrapper call in progress
    fwd_log               \* the outcome of every finished maxtext_wrapper call

genvars == <<devices_in_data_fsdp, jit_created, pc, error, caller_inputs,
             inputs, max_length, stop_token_ids, strip_prompt, batch_size,
             segment_ids, num_tokens, seq_len, generate_steps, reached_eos,
             steps_done, current_inputs, first_inputs, generated, logits_index,
             result>>
cfgvars == <<dtype_policy, distribution, DATA_SHARDING, call, last_precision,
             last_strategy>>
mapvars == <<model_name, model_config, scan_layers, saving_to_hf, param_mapping,
             hook_fn_mapping>>
hookvars == <<hook_fn, input_tensor, target_shape, output_tensor, restored_tensor>>
adaptvars == <<values, trainable, params, state, weights, adapt>>
fwdvars == <<mesh_stack, axis_rules, fwd, fwd_log>>
convvars == <<mapvars, hookvars, adaptvars, fwdvars>>
vars == <<genvars, cfgvars, convvars>>

\* tokens = inputs[tokens_key]: the same array object, written in place
tokens == inputs.token_ids

EmptyDict == [token_ids |-> <<>>, padding_mask |-> <<>>]

\* the prompts a caller passes: batch x seq_len, every row padded on the same
\* side (a run of ones at the left, or at the right, of any length per row),
\* prompt token p where the mask is 1 and the pad token 0 elsewhere
LeftRuns(l)  == {[c \in 1..l |-> IF c <= n THEN 1 ELSE 0] : n \in 0..l}
RightRuns(l) == {[c \in 1..l |-> IF c > l - n THEN 1 ELSE 0] : n \in 0..l}
Masks(b, l)  == [1..b -> LeftRuns(l)] \cup [1..b -> RightRuns(l)]
PromptOf(mask, p) ==
    [r \in 1..Len(mask) |->
        [c \in 1..Len(mask[r]) |-> IF mask[r][c] = 1 THEN p ELSE 0]]

Globals == [dtype_policy |-> dtype_policy, distribution |-> distribution,
            DATA_SHARDING |-> DATA_SHARDING]

NoCall == [op |-> "none", precision |-> "None", weight_dtype |-> "None",
           activation_dtype |-> "None", strategy |-> None,
           outcome |-> "none", returned |-> "None",
           before |-> [dtype_policy |-> "None", distribution |-> 0,
                       DATA_SHARDING |-> 0]]

InitModel ==
    /\ devices_in_data_fsdp \in 1..MaxShards
    /\ jit_created = 0
    /\ pc = "idle"
    /\ error = ""
    /\ caller_inputs = EmptyDict
    /\ inputs = EmptyDict
    /\ max_length = None
    /\ stop_token_ids = {}
    /\ strip_prompt = FALSE
    /\ batch_size = 0
    /\ segment_ids = <<>>
    /\ num_tokens = 0
    /\ seq_len = 0
    /\ generate_steps = 0
    /\ reached_eos = <<>>
    /\ steps_done = 0
    /\ current_inputs = EmptyDict
    /\ first_inputs = EmptyDict
    /\ generated = <<>>
    /\ logits_index = None
    /\ result = EmptyDict
    /\ dtype_policy = "None"
    /\ distribution = 0
    /\ DATA_SHARDING = 0
    /\ call = NoCall
    /\ last_precision = "None"
    /\ last_strategy = None

\* no table requested
IdleMap ==
    /\ model_name = "GEMMA2_2B"
    /\ model_config = [num_hidden_layers |-> 0, hidden_size |-> 4, head_dim |-> 4]
    /\ scan_layers = FALSE
    /\ saving_to_hf = FALSE
    /\ param_mapping = None
    /\ hook_fn_mapping = None

\* no transform called
IdleHook ==
    /\ hook_fn = "identity_transform"
    /\ input_tensor = Tensor(<<1>>, <<Rat(0, 1)>>)
    /\ target_shape = <<1>>
    /\ output_tensor = None
    /\ restored_tensor = None

NoAdapt == [called |-> FALSE, error |-> "", returned |-> <<>>,
            before |-> [params |-> None, state |-> None]]

\* a layer whose _create_variables has not run
IdleAdapt ==
    /\ values = <<>>
    /\ trainable = FALSE
    /\ params = None
    /\ state = None
    /\ weights = <<>>
    /\ adapt = NoAdapt

\* no forward call in progress; outer is what the caller had entered
NoForward(outer) ==
    [pc |-> "idle", training |-> FALSE, segment_ids |-> "None",
     enable_dropout |-> FALSE, model_mode |-> "", before |-> outer, outer |-> outer]

\* a wrapper called with no mesh entered and no axis rules set
IdleFwd ==
    /\ mesh_stack = <<>>
    /\ axis_rules = "()"
    /\ fwd = NoForward([mesh_stack |-> <<>>, axis_rules |-> "()"])
    /\ fwd_log = <<>>

Init == InitModel /\ IdleMap /\ IdleHook /\ IdleAdapt /\ IdleFwd

\* --------------------------------------------------------------- generate
\* Model._generate up to the for loop (lines 150-192).
GenerateCall(token_ids, padding_mask, max_len, stops, strip) ==
    LET b      == Len(token_ids)
        pad    == PadSize(b, devices_in_data_fsdp)
        padded == [token_ids    |-> NpPad(token_ids, pad),
                   padding_mask |-> NpPad(padding_mask, pad)]
        n0     == CountOnes(padded.padding_mask[1])
        sl     == Width(padded.padding_mask)
    IN  /\ jit_created' = jit_created + 1
        /\ caller_inputs' = [token_ids |-> token_ids, padding_mask |-> padding_mask]
        /\ inputs' = padded
        /\ max_length' = max_len
        /\ stop_token_ids' = stops
        /\ strip_prompt' = strip
        /\ batch_size' = b
        /\ segment_ids' = padded.padding_mask
        /\ num_tokens' = n0
        /\ seq_len' = sl
        /\ steps_done' = 0
        /\ generated' = <<>>
        /\ logits_index' = None
        /\ current_inputs' = EmptyDict
        /\ first_inputs' = EmptyDict
        /\ result' = EmptyDict
        /\ IF GenerateStepsRaises(max_len)
           THEN /\ pc' = "error"
                /\ error' = "TypeError"
                /\ generate_steps' = 0
                /\ reached_eos' = <<>>
           ELSE /\ generate_steps' = GenerateSteps(sl, n0, max_len)
                /\ reached_eos' = [i \in 1..b |-> FALSE]
                /\ error' = ""
                /\ pc' = IF GenerateSteps(sl, n0, max_len) > 0
                         THEN "loop" ELSE "exit"
        /\ UNCHANGED <<devices_in_data_fsdp, cfgvars, convvars>>

Generate ==
    /\ pc = "idle"
    /\ jit_created < MaxCalls
    /\ \E b \in 1..MaxBatch, l \in 1..MaxSeqLen :
      \E mask \in Masks(b, l), p \in 1..MaxTok, max_len \in MaxLengths,
         stops \in StopLists, strip \in BOOLEAN :
        GenerateCall(PromptOf(mask, p), mask, max_len, stops, strip)

\* One iteration of the for loop (lines 194-222); next_tokens is the arg-max
\* over the vocabulary of the logits the model returns at the sequence index
\* read, one token per row of the padded batch.
StepWith(next_tokens) ==
    LET eos == EosLoop(1, reached_eos, next_tokens, stop_token_ids)
        fed == [token_ids |-> tokens, padding_mask |-> segment_ids]
    IN  /\ current_inputs' = fed
        /\ first_inputs' = IF steps_done = 0 THEN fed ELSE first_inputs
        /\ inputs' = [inputs EXCEPT
                        !.token_ids = SetColumn(tokens, num_tokens, next_tokens)]
        /\ segment_ids' = FillColumn(NpRoll(segment_ids), 0, 1)
        /\ num_tokens' = num_tokens + 1
        /\ steps_done' = steps_done + 1
        /\ logits_index' = Some(LogitsIndex(num_tokens, seq_len))
        /\ generated' = Append(generated, next_tokens)
        /\ reached_eos' = eos.flags
        /\ IF eos.raised
           THEN pc' = "error" /\ error' = "IndexError"
           ELSE /\ error' = error
                /\ pc' = IF All(eos.flags) \/ steps_done + 1 >= generate_steps
                         THEN "exit" ELSE "loop"

Step ==
    /\ pc = "loop"
    /\ \E next_tokens \in [1..Len(tokens) -> Vocab] : StepWith(next_tokens)
    /\ UNCHANGED <<devices_in_data_fsdp, jit_created, caller_inputs, max_length,
                   stop_token_ids, strip_prompt, batch_size, seq_len,
                   generate_steps, result, cfgvars, convvars>>

\* Lines 224-234: slice the buffers and return.
ReturnValue ==
    IF strip_prompt
    THEN [token_ids |-> Slice2D(tokens, batch_size,
                           StripStart(num_tokens, generate_steps), num_tokens),
          padding_mask |-> Slice2D(MaskSource(TRUE, tokens, segment_ids), batch_size,
                           StripStart(num_tokens, generate_steps), num_tokens)]
    ELSE [token_ids |-> Slice2D(tokens, batch_size, 0, num_tokens),
          padding_mask |-> Slice2D(MaskSource(FALSE, tokens, segment_ids),
                                   batch_size, 0, num_tokens)]

Return ==
    /\ pc = "exit"
    /\ result' = ReturnValue
    /\ pc' = "done"
    /\ UNCHANGED <<devices_in_data_fsdp, jit_created, error, caller_inputs,
                   inputs, max_length, stop_token_ids, strip_prompt, batch_size,
                   segment_ids, num_tokens, seq_len, generate_steps, reached_eos,
                   steps_done, current_inputs, first_inputs, generated,
                   logits_index, cfgvars, convvars>>

\* The call is over (returned or raised): its frame is dropped.
Discard ==
    /\ pc \in {"done", "error"}
    /\ pc' = "idle"
    /\ error' = ""
    /\ caller_inputs' = EmptyDict
    /\ inputs' = EmptyDict
    /\ max_length' = None
    /\ stop_token_ids' = {}
    /\ strip_prompt' = FALSE
    /\ batch_size' = 0
    /\ segment_ids' = <<>>
    /\ num_tokens' = 0
    /\ seq_len' = 0
    /\ generate_steps' = 0
    /\ reached_eos' = <<>>
    /\ steps_done' = 0
    /\ current_inputs' = EmptyDict
    /\ first_inputs' = EmptyDict
    /\ generated' = <<>>
    /\ logits_index' = None
    /\ result' = EmptyDict
    /\ UNCHANGED <<devices_in_data_fsdp, jit_created, cfgvars, convvars>>

NextGen == Generate \/ Step \/ Return \/ Discard

SpecGen == Init /\ [][NextGen]_vars

\* ---------------------------------------------------------- configuration
\* set_precision (lines 236-287)
SetPrecisionCall(precision, weight_dtype, activation_dtype) ==
    LET args == [op |-> "set_precision", precision |-> precision,
                 weight_dtype |-> weight_dtype,
                 activation_dtype |-> activation_dtype, strategy |-> None,
                 before |-> Globals]
        resolved == IF precision = "None"
                    THEN InferPrecision(weight_dtype, activation_dtype)
                    ELSE precision
    IN  IF ~ArgsAccepted(precision, weight_dtype, activation_dtype)
        THEN /\ call' = args @@ [outcome |-> "AssertionError", returned |-> "None"]
             /\ UNCHANGED <<dtype_policy, last_precision>>
        ELSE IF resolved = "ValueError"
        THEN /\ call' = args @@ [outcome |-> "ValueError", returned |-> "None"]
             /\ UNCHANGED <<dtype_policy, last_precision>>
        ELSE /\ dtype_policy' = resolved
             /\ call' = args @@ [outcome |-> "ok", returned |-> resolved]
             /\ last_precision' =
                  IF precision # "None" THEN precision
                  ELSE IF weight_dtype = activation_dtype THEN weight_dtype
                  ELSE "mixed_" \o activation_dtype

SetPrecision ==
    /\ \E precision \in PrecisionArgs, weight_dtype \in DtypeArgs,
          activation_dtype \in DtypeArgs :
          SetPrecisionCall(precision, weight_dtype, activation_dtype)
    /\ UNCHANGED <<genvars, convvars, distribution, DATA_SHARDING, last_strategy>>

\* set_global_sharding_strategy (lines 290-304)
SetGlobalShardingStrategy ==
    /\ \E strategy \in StrategyArgs :
         LET after == ShardingAfter(strategy, distribution, DATA_SHARDING)
         IN  /\ distribution' = after.distribution
             /\ DATA_SHARDING' = after.DATA_SHARDING
             /\ call' = [op |-> "set_global_sharding_strategy",
                         precision |-> "None", weight_dtype |-> "None",
                         activation_dtype |-> "None", strategy |-> strategy,
                         outcome |-> "ok", returned |-> "None",
                         before |-> Globals]
             /\ last_strategy' = IF strategy # None THEN strategy
                                 ELSE last_strategy
    /\ UNCHANGED <<genvars, convvars, dtype_policy, last_precision>>

NextCfg == SetPrecision \/ SetGlobalShardingStrategy

SpecCfg == Init /\ [][NextCfg]_vars

\* --------------------------------------------------------- table builders
\* a caller looks up the builder of its model and builds the name table
BuildParamMapping ==
    /\ param_mapping = None
    /\ param_mapping' = Some(PARAM_MAPPING(model_name, model_config, scan_layers))
    /\ UNCHANGED <<genvars, cfgvars, hookvars, adaptvars, fwdvars, model_name, model_config,
                   scan_layers, saving_to_hf, hook_fn_mapping>>

\* ... and the hook table
BuildHookFns ==
    /\ hook_fn_mapping = None
    /\ hook_fn_mapping' = Some(HOOK_FNS(model_name, model_config, scan_layers))
    /\ UNCHANGED <<genvars, cfgvars, hookvars, adaptvars, fwdvars, model_name, model_config,
                   scan_layers, saving_to_hf, param_mapping>>

NextMap == BuildParamMapping \/ BuildHookFns

\* every supported model, layer count, scan mode and direction
InitMap ==
    /\ InitModel /\ IdleHook /\ IdleAdapt /\ IdleFwd
    /\ devices_in_data_fsdp = 1
    /\ model_name \in SupportedModels
    /\ model_config \in [num_hidden_layers : 0..MaxLayers, hidden_size : {4},
                         head_dim : {4}]
    /\ scan_layers \in BOOLEAN
    /\ saving_to_hf \in BOOLEAN
    /\ param_mapping = None
    /\ hook_fn_mapping = None

SpecMap == InitMap /\ [][NextMap]_vars

\* -------------------------------------------------------------- transforms
\* the shapes and tensors handed to a transform: up to MaxRank axes and
\* MaxElems elements, the elements 0, 1, 2, ... in row-major order
Shapes ==
    {shape \in UNION {[1..r -> 1..MaxElems] : r \in 1..MaxRank} :
        Size(shape) <= MaxElems}
Iota(shape) == Tensor(shape, [k \in 1..Size(shape) |-> Rat(k - 1, 1)])
\* the embedding table and its target shape are 2-D
ShapesFor(fn) ==
    IF fn = "pad_hf_embedding_layer" THEN {shape \in Shapes : Len(shape) = 2}
    ELSE Shapes
ConfigSizes == {4, 9}

\* the checkpoint converter calls the hook of a parameter on its tensor
ApplyTransform ==
    /\ output_tensor = None
    /\ output_tensor' = Some(ApplyHook(hook_fn, model_config, saving_to_hf,
                                       input_tensor, target_shape))
    /\ UNCHANGED <<genvars, cfgvars, mapvars, adaptvars, fwdvars, hook_fn, input_tensor,
                   target_shape, restored_tensor>>

\* ... and the hook of the opposite direction on the result, with the input's
\* shape as the target
ApplyInverse ==
    /\ output_tensor # None
    /\ restored_tensor = None
    /\ Ok(output_tensor[1])
    /\ restored_tensor' = Some(ApplyHook(hook_fn, model_config, ~saving_to_hf,
                                         output_tensor[1], input_tensor.shape))
    /\ UNCHANGED <<genvars, cfgvars, mapvars, adaptvars, fwdvars, hook_fn, input_tensor,
                   target_shape, output_tensor>>

NextHook == ApplyTransform \/ ApplyInverse

\* every transform, direction, input tensor and target shape
InitHook ==
    /\ InitModel /\ IdleAdapt /\ IdleFwd
    /\ devices_in_data_fsdp = 1
    /\ model_name = "GEMMA2_2B"
    /\ \E size \in ConfigSizes :
          model_config = [num_hidden_layers |-> 0, hidden_size |-> size,
                          head_dim |-> size]
    /\ scan_layers = FALSE
    /\ saving_to_hf \in BOOLEAN
    /\ param_mapping = None
    /\ hook_fn_mapping = None
    /\ hook_fn \in HookNames
    /\ input_tensor \in {Iota(shape) : shape \in ShapesFor(hook_fn)}
    /\ target_shape \in ShapesFor(hook_fn)
    /\ output_tensor = None
    /\ restored_tensor = None

SpecHook == InitHook /\ [][NextHook]_vars

\* ---------------------------------------------------------------- adapter
\* MaxTextLayer._create_variables(values, trainable), lines 27-63
CreateVariables ==
    /\ ~adapt.called
    /\ LET results == named_tree_map(values, trainable)
           leaves  == tree_flatten(results)
           raising == {i \in DOMAIN leaves : leaves[i].error # ""}
           reached == IF raising = {} THEN Len(leaves)
                      ELSE (CHOOSE i \in raising : \A j \in raising : i <= j) - 1
           created == SelectSeq([i \in 1..reached |-> leaves[i].result],
                                LAMBDA v : v.type = "KerasVariable")
           variables == [p \in DOMAIN results |-> results[p].result]
       IN  /\ weights' = weights \o created
           /\ IF raising = {}
              THEN /\ params' = IF trainable THEN Some(variables) ELSE params
                   /\ state' = IF trainable THEN state ELSE Some(variables)
                   /\ adapt' = [called |-> TRUE, error |-> "",
                                returned |-> tree_flatten(variables),
                                before |-> [params |-> params, state |-> state]]
              ELSE /\ UNCHANGED <<params, state>>
                   /\ adapt' = [called |-> TRUE,
                                error |-> leaves[reached + 1].error,
                                returned |-> <<>>,
                                before |-> [params |-> params, state |-> state]]
    /\ UNCHANGED <<genvars, cfgvars, mapvars, hookvars, fwdvars, values, trainable>>

NextAdapt == CreateVariables

\* a registry left by an earlier call on the layer
EarlierTree ==
    (<<"decoder">> :> add_weight(<<>>, LeafOf("int"), TRUE, "decoder"))

\* every pytree, either flag, and registries unset or set by an earlier call
InitAdapt ==
    /\ InitModel /\ IdleMap /\ IdleHook /\ IdleFwd
    /\ devices_in_data_fsdp = 1
    /\ values \in Pytrees
    /\ trainable \in BOOLEAN
    /\ params \in {None, Some(EarlierTree)}
    /\ state \in {None, Some(EarlierTree)}
    /\ weights = <<>>
    /\ adapt = NoAdapt

SpecAdapt == InitAdapt /\ [][NextAdapt]_vars

\* -------------------------------------------------------- forward wrapper
\* maxtext_wrapper(module, inputs, training), lines 90-105
\* leaving "with mesh, axis_rules(...)": both contexts are exited, innermost
\* first, whether the body returned or raised
AfterWithNoFinally(raised, stack, rules, rules_before) ==
    IF raised THEN [mesh_stack |-> stack, axis_rules |-> rules]
    ELSE [mesh_stack |-> SubSeq(stack, 1, Len(stack) - 1),
          axis_rules |-> rules_before]
AfterWith(raised, stack, rules, rules_before) ==
    [mesh_stack |-> SubSeq(stack, 1, Len(stack) - 1), axis_rules |-> rules_before]

Logged(outcome) ==
    Append(fwd_log, [training |-> fwd'.training, outcome |-> outcome,
                     segment_ids |-> fwd'.segment_ids,
                     enable_dropout |-> fwd'.enable_dropout,
                     model_mode |-> fwd'.model_mode])

\* lines 93-99: unpack the inputs, enter both contexts, call the module
ForwardCall(n_inputs, training) ==
    IF n_inputs # 3
    THEN \* tokens, positions, segment_ids = inputs raises ValueError
         /\ fwd' = [fwd EXCEPT !.training = training, !.segment_ids = "None",
                               !.enable_dropout = FALSE, !.model_mode = ""]
         /\ fwd_log' = Logged("ValueError")
         /\ UNCHANGED <<mesh_stack, axis_rules>>
    ELSE /\ mesh_stack' = Append(mesh_stack, "mesh")
         /\ axis_rules' = "config.logical_axis_rules"
         /\ fwd' = [pc |-> "module", training |-> training,
                    segment_ids |-> IF training THEN "segment_ids" ELSE "None",
                    enable_dropout |-> training, model_mode |-> "train",
                    before |-> [mesh_stack |-> mesh_stack, axis_rules |-> axis_rules],
                    outer |-> fwd.outer]
         /\ UNCHANGED fwd_log

Forward ==
    /\ fwd.pc = "idle"
    /\ Len(fwd_log) < MaxCalls
    /\ \E n_inputs \in {2, 3} : \E training \in BOOLEAN :
          ForwardCall(n_inputs, training)
    /\ UNCHANGED <<genvars, cfgvars, mapvars, hookvars, adaptvars>>

\* the module call ends, by returning (raised FALSE) or by raising
ModuleEnds(raised) ==
    /\ fwd.pc = "module"
    /\ LET after == AfterWith(raised, mesh_stack, axis_rules, fwd.before.axis_rules)
       IN  /\ mesh_stack' = after.mesh_stack
           /\ axis_rules' = after.axis_rules
    /\ fwd' = [fwd EXCEPT !.pc = "idle"]
    /\ fwd_log' = Logged(IF raised THEN "raised" ELSE "returned")
    /\ UNCHANGED <<genvars, cfgvars, mapvars, hookvars, adaptvars>>

ModuleReturns == ModuleEnds(FALSE)
ModuleRaises  == ModuleEnds(TRUE)

NextFwd == Forward \/ ModuleReturns \/ ModuleRaises

\* the caller has entered no mesh, or a mesh and axis rules of its own
InitFwd ==
    /\ InitModel /\ IdleMap /\ IdleHook /\ IdleAdapt
    /\ devices_in_data_fsdp = 1
    /\ mesh_stack \in {<<>>, <<"outer_mesh">>}
    /\ axis_rules \in {"()", "outer_rules"}
    /\ fwd = NoForward([mesh_stack |-> mesh_stack, axis_rules |-> axis_rules])
    /\ fwd_log = <<>>

SpecFwd == InitFwd /\ [][NextFwd]_vars

Next == NextGen \/ NextCfg \/ NextMap \/ NextHook \/ NextAdapt \/ NextFwd

Spec == Init /\ [][Next]_vars

\* ================================================================= claims
\* quantities of the call in progress, read off the caller's arguments
CallBatch  == Len(caller_inputs.token_ids)
CallSeqLen == Width(caller_inputs.padding_mask)
N0         == CountOnes(caller_inputs.padding_mask[1])
InCall     == pc \in {"loop", "exit", "done", "error"}
Returned   == pc = "done"
ModelCalls == Len(generated)
StepBudget == Min(CallSeqLen - N0, max_length[1] - N0)
GeneratedOf(r) == [k \in 1..Len(generated) |-> generated[k][r]]
Finished(r) == \E k \in 1..Len(generated) : generated[k][r] \in stop_token_ids
AllFinished == \A r \in 1..CallBatch : Finished(r)
PaddedRows == ((CallBatch + devices_in_data_fsdp - 1) \div devices_in_data_fsdp)
                 * devices_in_data_fsdp

\* C1 (as stated): with an empty stop-token set generate performs exactly
\* max(0, min(seq_len - n0, max_length - n0)) decode steps and returns
\* token_ids of width n0 plus that number; when the min is <= 0 the model is
\* never invoked and the returned token_ids are the first n0 input columns.
C1_AsStated ==
    (InCall /\ stop_token_ids = {} /\ max_length # None) =>
        /\ pc # "error"
        /\ ModelCalls <= Max(0, StepBudget)
        /\ pc \in {"exit", "done"} => ModelCalls = Max(0, StepBudget)
        /\ Returned => /\ Len(result.token_ids) = CallBatch
                       /\ \A r \in 1..CallBatch :
                            Len(result.token_ids[r]) = N0 + ModelCalls
        /\ (Returned /\ StepBudget <= 0) =>
              /\ ModelCalls = 0
              /\ current_inputs = EmptyDict
              /\ result.token_ids =
                   [r \in 1..CallBatch |-> SubSeq(caller_inputs.token_ids[r], 1, N0)]

\* C1 (amended): with an empty stop-token set generate performs exactly
\* max(0, min(seq_len - n0, max_length - n0)) decode steps, never invoking
\* the model when the min is <= 0; with strip_prompt False it returns
\* token_ids of width n0 plus that number of steps, which are the first n0
\* input columns when the min is <= 0.
C1_StepCount ==
    (InCall /\ stop_token_ids = {} /\ max_length # None) =>
        /\ pc # "error"
        /\ ModelCalls <= Max(0, StepBudget)
        /\ pc \in {"exit", "done"} => ModelCalls = Max(0, StepBudget)
        /\ (Returned /\ StepBudget <= 0) =>
              /\ ModelCalls = 0
              /\ current_inputs = EmptyDict
        /\ (Returned /\ ~strip_prompt) =>
              /\ Len(result.token_ids) = CallBatch
              /\ \A r \in 1..CallBatch :
                   Len(result.token_ids[r]) = N0 + ModelCalls
        /\ (Returned /\ ~strip_prompt /\ StepBudget <= 0) =>
              result.token_ids =
                 [r \in 1..CallBatch |-> SubSeq(caller_inputs.token_ids[r], 1, N0)]

C1_Witness ==
    /\ Returned
    /\ stop_token_ids = {}
    /\ ~strip_prompt
    /\ CallBatch = 2
    /\ N0 = 1
    /\ ModelCalls = 2
    /\ max_length = Some(MaxSeqLen + 1)

\* C2: generate stops stepping at the end of the first step at which every
\* original sequence has produced a stop token, does not stop while an
\* original sequence is unfinished and steps remain, and then returns
\* token_ids of width n0 + k.
C2_StopsWhenAllFinished ==
    (InCall /\ max_length # None) =>
        /\ pc = "loop" => ~AllFinished
        /\ (pc # "loop" /\ ModelCalls < StepBudget) => AllFinished
        /\ pc # "error"
        /\ (Returned /\ AllFinished) =>
              \A r \in 1..CallBatch : Len(result.token_ids[r]) = N0 + ModelCalls

\* C3: the arrays handed to the model at every decode step have
\* ceil(B/D)*D rows (B rows when D divides B), the added rows are all-zero
\* in the input to the first step, and both returned arrays have exactly B
\* rows, which are (column ranges of) the first B rows of the working buffers.
C3_BatchPadding ==
    /\ (InCall /\ ModelCalls > 0) =>
          /\ Len(current_inputs.token_ids) = PaddedRows
          /\ Len(current_inputs.padding_mask) = PaddedRows
          /\ CallBatch % devices_in_data_fsdp = 0 =>
                Len(current_inputs.token_ids) = CallBatch
          /\ Len(first_inputs.token_ids) = PaddedRows
          /\ \A r \in (CallBatch + 1)..PaddedRows :
                /\ first_inputs.token_ids[r] = [c \in 1..CallSeqLen |-> 0]
                /\ first_inputs.padding_mask[r] = [c \in 1..CallSeqLen |-> 0]
    /\ Returned =>
          /\ Len(result.token_ids) = CallBatch
          /\ Len(result.padding_mask) = CallBatch
          /\ \E lo \in 1..(CallSeqLen + 1), hi \in 0..CallSeqLen :
                /\ \A r \in 1..CallBatch :
                      result.token_ids[r] = SubSeq(tokens[r], lo, hi)
                /\ \E buf \in {tokens, segment_ids} :
                      \A r \in 1..CallBatch :
                         result.padding_mask[r] = SubSeq(buf[r], lo, hi)

C3_Witness ==
    /\ Returned
    /\ CallBatch = 1
    /\ devices_in_data_fsdp = 2
    /\ ModelCalls = 2
    /\ Len(current_inputs.token_ids) = 2

\* C4: with strip_prompt True the returned token_ids are exactly the tokens
\* produced by the decode steps of this call, and no prompt token.
C4_StripReturnsGenerated ==
    (Returned /\ strip_prompt) =>
        result.token_ids = [r \in 1..CallBatch |-> GeneratedOf(r)]

\* C5: for both values of strip_prompt the returned padding_mask is the
\* slice of the mask buffer over the rows and columns of the returned
\* token_ids: same shape, entries 0 or 1, never token ids.
C5_MaskIsMaskSlice ==
    Returned =>
        /\ Len(result.padding_mask) = Len(result.token_ids)
        /\ \A r \in 1..Len(result.padding_mask) :
              /\ Len(result.padding_mask[r]) = Len(result.token_ids[r])
              /\ \A c \in 1..Len(result.padding_mask[r]) :
                    result.padding_mask[r][c] \in {0, 1}
        /\ \E lo \in 1..(CallSeqLen + 1), hi \in 0..CallSeqLen :
              \A r \in 1..CallBatch :
                 /\ result.token_ids[r] = SubSeq(tokens[r], lo, hi)
                 /\ result.padding_mask[r] = SubSeq(segment_ids[r], lo, hi)

\* C6: with max_length None the call generates until every sequence has
\* produced a stop token or seq_len is reached, and returns a result.
C6_NoneMaxLength ==
    (InCall /\ max_length = None) =>
        /\ pc # "error"
        /\ pc \in {"exit", "done"} => (AllFinished \/ num_tokens >= CallSeqLen)

\* C7: over any sequence of generate calls on the model instance the step
\* function is created/compiled at most once.
C7_CompiledOnce == jit_created <= 1

\* the cursor at which the last executed step ran (num_tokens before its
\* increment), and what every executed step wrote
Cursor == num_tokens - 1
StepsWroteAtCursor ==
    /\ num_tokens = N0 + ModelCalls
    /\ \A k \in 1..ModelCalls : \A r \in 1..Len(tokens) :
          tokens[r][N0 + k] = generated[k][r]

\* C21 as stated: every decode step reads the logits at the cursor position
\* num_tokens, takes their arg-max as the next token of each sequence and
\* writes it into tokens at the cursor before incrementing the cursor by one.
C21_AsStated ==
    (InCall /\ ModelCalls > 0) =>
        /\ logits_index = Some(Cursor)
        /\ StepsWroteAtCursor

\* C21: every decode step reads the logits at the position before the cursor,
\* index num_tokens - 1 (the last position, seq_len - 1, when the cursor is
\* 0), takes their arg-max as the next token of each sequence and writes it
\* into tokens at the cursor num_tokens before incrementing the cursor by one.
C21_LogitsBeforeCursor ==
    (InCall /\ ModelCalls > 0) =>
        /\ logits_index = Some(IF Cursor = 0 THEN CallSeqLen - 1 ELSE Cursor - 1)
        /\ StepsWroteAtCursor

\* two steps from a one-token prompt: the second reads position 1 and writes
\* a token other than the first step's at column 2
C21_Witness ==
    /\ InCall /\ ModelCalls = 2 /\ N0 = 1
    /\ logits_index = Some(1)
    /\ num_tokens = 3
    /\ tokens[1][3] = generated[2][1]
    /\ generated[2][1] # generated[1][1]

\* C22: for every batch size, shard count, stop-token set and model output,
\* the stop-token check of a step sets finished flags only at indices below
\* the length of reached_eos: the rows added by batch padding never raise an
\* out-of-range error, and the loop ends early only when every original
\* sequence has produced a stop token, whatever the added rows predict.
C22_PaddingRowsIgnored ==
    (InCall /\ max_length # None) =>
        /\ error # "IndexError"
        /\ Len(reached_eos) = CallBatch
        /\ \A r \in 1..Len(reached_eos) : reached_eos[r] = Finished(r)
        /\ (pc \in {"exit", "done"} /\ ModelCalls < StepBudget) => AllFinished

\* C23: generate works on buffers of its own: when it has returned, the
\* inputs dict of the caller still holds, under each key, the array it was
\* passed with, with the same number of rows and the same contents, whether
\* or not the batch was padded (so a second call with the same dict starts
\* from the same inputs as the first).
C23_InputsUntouched ==
    Returned =>
        /\ Len(inputs.token_ids) = CallBatch
        /\ Len(inputs.padding_mask) = CallBatch
        /\ inputs.token_ids = caller_inputs.token_ids
        /\ inputs.padding_mask = caller_inputs.padding_mask

\* every original sequence's input mask is n0 ones followed by zeros
LeftAligned ==
    \A r \in 1..CallBatch :
        caller_inputs.padding_mask[r] = [c \in 1..CallSeqLen |-> IF c <= N0 THEN 1 ELSE 0]

\* C24: when every original sequence's input mask is a left-aligned run of n0
\* ones, then throughout the call, so after every decode step, the mask row
\* of each original sequence has ones exactly at positions 0..num_tokens-1
\* and zeros elsewhere, its number of ones is num_tokens, and the mask array
\* keeps its rows and its seq_len columns.
C24_MaskTracksCursor ==
    (InCall /\ LeftAligned) =>
        /\ Len(segment_ids) = PaddedRows
        /\ \A r \in 1..Len(segment_ids) : Len(segment_ids[r]) = CallSeqLen
        /\ \A r \in 1..CallBatch :
              /\ segment_ids[r] = [c \in 1..CallSeqLen |-> IF c <= num_tokens THEN 1 ELSE 0]
              /\ CountOnes(segment_ids[r]) = num_tokens

\* two sequences with a one-token prompt, after two steps: three ones each
C24_Witness ==
    /\ InCall /\ LeftAligned /\ CallBatch = 2 /\ N0 = 1 /\ ModelCalls = 2
    /\ CallSeqLen = 3
    /\ segment_ids[1] = <<1, 1, 1>>
    /\ segment_ids[2] = <<1, 1, 1>>

\* C25: when all sequences have the same left-aligned prompt length n0, the
\* k-th executed step writes only column n0+k-1, which is below seq_len:
\* throughout the call every column of tokens outside n0..n0+k-1 holds what
\* the caller passed and column n0+j-1 holds the prediction of step j; with
\* strip_prompt False the first n0 columns of the returned token_ids are the
\* prompt tokens of every original row, whatever the model predicts.
C25_PromptNeverOverwritten ==
    (InCall /\ LeftAligned) =>
        /\ N0 + ModelCalls <= CallSeqLen
        /\ \A r \in 1..CallBatch : \A c \in 1..CallSeqLen :
              tokens[r][c] = (IF c \in (N0 + 1)..(N0 + ModelCalls)
                              THEN generated[c - N0][r]
                              ELSE caller_inputs.token_ids[r][c])
        /\ (Returned /\ ~strip_prompt) =>
              \A r \in 1..CallBatch :
                  /\ Len(result.token_ids[r]) >= N0
                  /\ SubSeq(result.token_ids[r], 1, N0) =
                         SubSeq(caller_inputs.token_ids[r], 1, N0)

\* a two-token prompt in both rows, one step predicting another token than
\* the prompt's: the returned rows start with the prompt
C25_Witness ==
    /\ Returned /\ LeftAligned /\ ~strip_prompt
    /\ CallBatch = 2 /\ N0 = 2 /\ ModelCalls = 1
    /\ generated[1][1] # caller_inputs.token_ids[1][2]
    /\ result.token_ids[1] =
           Append(SubSeq(caller_inputs.token_ids[1], 1, 2), generated[1][1])

\* C8: set_precision succeeds only when exactly one argument form is used
\* (precision alone, or both dtypes without precision); every other
\* combination fails and leaves the global policy unchanged.
C8_ExclusiveForms ==
    call.op = "set_precision" =>
        LET named == /\ call.precision # "None"
                     /\ call.weight_dtype = "None"
                     /\ call.activation_dtype = "None"
            typed == /\ call.precision = "None"
                     /\ call.weight_dtype # "None"
                     /\ call.activation_dtype # "None"
        IN  /\ call.outcome = "ok" => (named \/ typed)
            /\ ~(named \/ typed) => call.outcome = "AssertionError"
            /\ call.outcome # "ok" =>
                  /\ dtype_policy = call.before.dtype_policy
                  /\ call.returned = "None"

C8_Witness ==
    /\ call.op = "set_precision"
    /\ call.precision = "float16"
    /\ call.weight_dtype = "float32"
    /\ call.activation_dtype = "None"
    /\ call.outcome = "AssertionError"
    /\ dtype_policy = "mixed_bfloat16"

\* C9: with precision absent, set_precision(weight_dtype=w,
\* activation_dtype=a) sets and returns w if w = a, mixed_float16 for
\* (float32, float16), mixed_bfloat16 for (float32, bfloat16), and for every
\* other pair fails without changing the global policy.
C9_InferredPolicy ==
    (call.op = "set_precision" /\ call.precision = "None") =>
        LET w == call.weight_dtype
            a == call.activation_dtype
            sets(p) == /\ call.outcome = "ok"
                       /\ call.returned = p
                       /\ dtype_policy = p
        IN  IF w # "None" /\ w = a THEN sets(w)
            ELSE IF w = "float32" /\ a = "float16" THEN sets("mixed_float16")
            ELSE IF w = "float32" /\ a = "bfloat16" THEN sets("mixed_bfloat16")
            ELSE /\ call.outcome \in {"ValueError", "AssertionError"}
                 /\ (w # "None" /\ a # "None") => call.outcome = "ValueError"
                 /\ dtype_policy = call.before.dtype_policy

C9_Witness ==
    /\ call.op = "set_precision"
    /\ call.precision = "None"
    /\ call.weight_dtype = "bfloat16"
    /\ call.activation_dtype = "float16"
    /\ call.outcome = "ValueError"
    /\ dtype_policy = "float32"

\* C10: overriding global configuration never fails: the global policy is
\* the one of the last successful set_precision call, the global
\* distribution and DATA_SHARDING are those of the last
\* set_global_sharding_strategy call with a non-None strategy, and a call
\* with strategy None changes no global state.
C10_LastWriteWins ==
    /\ dtype_policy = last_precision
    /\ (call.op = "set_precision" /\ call.precision # "None"
          /\ call.weight_dtype = "None" /\ call.activation_dtype = "None") =>
             /\ call.outcome = "ok"
             /\ dtype_policy = call.precision
    /\ IF last_strategy = None
       THEN distribution = 0 /\ DATA_SHARDING = 0
       ELSE /\ distribution = last_strategy[1].distribution
            /\ DATA_SHARDING = last_strategy[1].data_sharding
    /\ call.op = "set_global_sharding_strategy" =>
          /\ call.outcome = "ok"
          /\ dtype_policy = call.before.dtype_policy
          /\ call.strategy = None => Globals = call.before

C10_Witness ==
    /\ call.op = "set_global_sharding_strategy"
    /\ call.strategy # None
    /\ call.before.distribution # 0
    /\ call.before.distribution # distribution
    /\ call.before.DATA_SHARDING # DATA_SHARDING
    /\ call.before.dtype_policy = "float16"
    /\ last_precision = "float16"

\* ----------------------------------------------------- name-table claims
MappingBuilt == param_mapping # None
TheMapping   == param_mapping[1]
HooksBuilt   == hook_fn_mapping # None
TheHooks     == hook_fn_mapping[1]
IsGemma2     == model_name \in Gemma2Models
NLayers      == model_config.num_hidden_layers

\* the per-layer tensor kinds of the dual-sublayer family: the key is
\* <before>_<local|global><after>, the target path ends in the third field
Gemma2Kinds ==
    << <<"pre_self_attention_norm", "-scale", "input_layernorm.weight">>,
       <<"post_self_attention_norm", "-scale", "post_attention_layernorm.weight">>,
       <<"pre_ffw_norm", "-scale", "pre_feedforward_layernorm.weight">>,
       <<"post_ffw_norm", "-scale", "post_feedforward_layernorm.weight">>,
       <<"self_attention", "-query-kernel", "self_attn.q_proj.weight">>,
       <<"self_attention", "-key-kernel", "self_attn.k_proj.weight">>,
       <<"self_attention", "-value-kernel", "self_attn.v_proj.weight">>,
       <<"self_attention", "-out-kernel", "self_attn.o_proj.weight">>,
       <<"mlp", "-wi_0-kernel", "mlp.gate_proj.weight">>,
       <<"mlp", "-wi_1-kernel", "mlp.up_proj.weight">>,
       <<"mlp", "-wo-kernel", "mlp.down_proj.weight">> >>
\* the per-layer tensor kinds of the uniform family: key ending, target ending
Llama31Kinds ==
    << <<"self_attention-query-kernel", "self_attn.q_proj.weight">>,
       <<"self_attention-key-kernel", "self_attn.k_proj.weight">>,
       <<"self_attention-value-kernel", "self_attn.v_proj.weight">>,
       <<"self_attention-out-kernel", "self_attn.o_proj.weight">>,
       <<"mlp-wi_0-kernel", "mlp.gate_proj.weight">>,
       <<"mlp-wi_1-kernel", "mlp.up_proj.weight">>,
       <<"mlp-wo-kernel", "mlp.down_proj.weight">>,
       <<"pre_self_attention_layer_norm-scale", "input_layernorm.weight">>,
       <<"post_self_attention_layer_norm-scale", "post_attention_layernorm.weight">> >>
Sublayers == {"local", "global"}
Gemma2CompactKey(i, kind, sub) ==
    "params-decoder-layers_" \o ToString(i) \o "-" \o kind[1] \o "_" \o sub \o kind[2]
Gemma2StackedKey(kind, sub) ==
    "params-decoder-layers-" \o kind[1] \o "_" \o sub \o kind[2]
Gemma2StaticKeys ==
    {"params-token_embedder-embedding", "params-decoder-decoder_norm-scale"}
Llama31StaticKeys ==
    {"max_text_layer/params-token_embedder-embedding",
     "max_text_layer/params-decoder-logits_dense-kernel",
     "max_text_layer/params-decoder-decoder_norm-scale"}
StaticKeys == IF IsGemma2 THEN Gemma2StaticKeys ELSE Llama31StaticKeys
PerLayerKeys == DOMAIN TheMapping \ StaticKeys

\* C11: in the dual-sublayer table built with scan_layers False, for every
\* compact layer i in 0..n div 2 - 1 and every per-layer kind, the _local key
\* of layers_i maps to the kind's path in target layer 2i and the _global key
\* to the kind's path in target layer 2i+1; the table has no other per-layer
\* key, so a local key never maps to an odd layer nor a global key to an even one.
C11_LocalEvenGlobalOdd ==
    (MappingBuilt /\ IsGemma2 /\ ~scan_layers) =>
        /\ \A i \in 0..((NLayers \div 2) - 1) : \A k \in DOMAIN Gemma2Kinds :
              LET kind == Gemma2Kinds[k]
                  loc  == Gemma2CompactKey(i, kind, "local")
                  glo  == Gemma2CompactKey(i, kind, "global")
              IN  /\ loc \in DOMAIN TheMapping
                  /\ glo \in DOMAIN TheMapping
                  /\ TheMapping[loc] = Path(HfLayerPath(2 * i, kind[3]))
                  /\ TheMapping[glo] = Path(HfLayerPath(2 * i + 1, kind[3]))
        /\ PerLayerKeys =
              {Gemma2CompactKey(i, Gemma2Kinds[k], sub) :
                  i \in 0..((NLayers \div 2) - 1), k \in DOMAIN Gemma2Kinds,
                  sub \in Sublayers}

\* a table of two compact layers: layers_1 maps to target layers 2 and 3
C11_Witness ==
    /\ MappingBuilt /\ IsGemma2 /\ ~scan_layers /\ NLayers >= 4
    /\ TheMapping["params-decoder-layers_1-mlp_local-wo-kernel"] =
           Path("model.layers.2.mlp.down_proj.weight")
    /\ TheMapping["params-decoder-layers_1-mlp_global-wo-kernel"] =
           Path("model.layers.3.mlp.down_proj.weight")

\* C12: in the dual-sublayer table built with scan_layers True, every
\* per-layer kind is one stacked key per sublayer whose value is the list of
\* the kind's target paths for the odd layer indices below n (global) or the
\* even ones (local), in increasing order; the table has no other per-layer
\* key, so no layers_i key.
C12_StackedLists ==
    (MappingBuilt /\ IsGemma2 /\ scan_layers) =>
        /\ \A k \in DOMAIN Gemma2Kinds : \A sub \in Sublayers :
              LET kind   == Gemma2Kinds[k]
                  key    == Gemma2StackedKey(kind, sub)
                  parity == IF sub = "global" THEN 1 ELSE 0
                  layers == {i \in 0..(NLayers - 1) : i % 2 = parity}
              IN  /\ key \in DOMAIN TheMapping
                  /\ TheMapping[key].list
                  /\ Len(TheMapping[key].paths) = Cardinality(layers)
                  /\ \A j \in 1..Cardinality(layers) :
                        TheMapping[key].paths[j] =
                            HfLayerPath(parity + 2 * (j - 1), kind[3])
        /\ PerLayerKeys =
              {Gemma2StackedKey(Gemma2Kinds[k], sub) :
                  k \in DOMAIN Gemma2Kinds, sub \in Sublayers}

\* a stacked table of at least four layers: two paths per list
C12_Witness ==
    /\ MappingBuilt /\ IsGemma2 /\ scan_layers /\ NLayers >= 4
    /\ TheMapping["params-decoder-layers-self_attention_global-query-kernel"] =
           PathList(<<"model.layers.1.self_attn.q_proj.weight",
                      "model.layers.3.self_attn.q_proj.weight">>)
    /\ "params-decoder-layers_0-self_attention_global-query-kernel"
           \notin DOMAIN TheMapping

\* the target suffixes of the family's per-layer kinds
KindSuffixes ==
    IF IsGemma2 THEN {Gemma2Kinds[k][3] : k \in DOMAIN Gemma2Kinds}
    ELSE {Llama31Kinds[k][2] : k \in DOMAIN Llama31Kinds}
NumKinds == IF IsGemma2 THEN Len(Gemma2Kinds) ELSE Len(Llama31Kinds)
\* n per-layer pairs per kind, every target layer 0..n-1 written for every kind
FullCoverage ==
    /\ Cardinality(PerLayerKeys) = NLayers * NumKinds
    /\ NumKinds = (IF IsGemma2 THEN 11 ELSE 9)
    /\ \A layer \in 0..(NLayers - 1) : \A suffix \in KindSuffixes :
          \E key \in PerLayerKeys : TheMapping[key] = Path(HfLayerPath(layer, suffix))

\* C13 as stated: with scan_layers False, for every n, the table has n times
\* the number of kinds per-layer pairs (11 kinds dual-sublayer, 9 uniform) and
\* covers every target layer 0..n-1 for every kind.
C13_AsStated == (MappingBuilt /\ ~scan_layers) => FullCoverage

\* C13: the same, for every n of the uniform family and every even n of the
\* dual-sublayer family.
C13_Coverage ==
    (MappingBuilt /\ ~scan_layers /\ (IsGemma2 => NLayers % 2 = 0)) => FullCoverage

\* both families with four layers: 44 and 36 per-layer pairs
C13_Witness ==
    /\ MappingBuilt /\ ~scan_layers /\ NLayers = 4
    /\ Cardinality(PerLayerKeys) = (IF IsGemma2 THEN 44 ELSE 36)
    /\ \E key \in PerLayerKeys :
          TheMapping[key] = Path("model.layers.3.mlp.up_proj.weight")

\* the per-layer kinds of the model's family as key endings, and the keys a
\* kind has in a table: the stacked key, and one key per compact layer
KindEndings ==
    IF IsGemma2
    THEN {Gemma2Kinds[k][1] \o "_" \o sub \o Gemma2Kinds[k][2] :
             k \in DOMAIN Gemma2Kinds, sub \in Sublayers}
    ELSE {Llama31Kinds[k][1] : k \in DOMAIN Llama31Kinds}
KeyPrefix == IF IsGemma2 THEN "params-decoder-layers" ELSE "max_text_layer/params-decoder-layers"
StackedKeyOf(ending) == KeyPrefix \o "-" \o ending
LayerKeyOf(i, ending) == KeyPrefix \o "_" \o ToString(i) \o "-" \o ending
KeysOfKind(ending) ==
    {StackedKeyOf(ending)} \cup {LayerKeyOf(i, ending) : i \in 0..MaxLayers}
\* the kind receives a hook in the scanned or in the unscanned hook table
HookedInEitherMode(ending) ==
    \/ StackedKeyOf(ending) \in
           DOMAIN HOOK_FNS(model_name, [num_hidden_layers |-> 2], TRUE)
    \/ LayerKeyOf(0, ending) \in
           DOMAIN HOOK_FNS(model_name, [num_hidden_layers |-> 2], FALSE)

\* C14: for both families, every layer count and both scan modes, every
\* mapping key of a per-layer kind that receives a hook in either scan mode is
\* also a key of the hook table built with the same config and scan_layers.
C14_HookParity ==
    (MappingBuilt /\ HooksBuilt) =>
        \A ending \in KindEndings :
            HookedInEitherMode(ending) =>
                \A key \in KeysOfKind(ending) \cap DOMAIN TheMapping :
                    key \in DOMAIN TheHooks

\* the hook a per-layer kind of the dual-sublayer family is declared with
Gemma2ExpectedHook(kind) ==
    IF kind[2] = "-query-kernel"
    THEN [list |-> TRUE, fns |-> <<"reshape_kernel", "scale_query_layer">>]
    ELSE IF kind[2] = "-scale"
    THEN [list |-> FALSE, fns |-> <<"scale_rmsnorm_layer">>]
    ELSE [list |-> FALSE, fns |-> <<"reshape_kernel">>]
\* the per-layer keys of a dual-sublayer table and the kind each belongs to
Gemma2KeyKinds ==
    IF scan_layers
    THEN {<<Gemma2StackedKey(Gemma2Kinds[k], sub), k>> :
             k \in DOMAIN Gemma2Kinds, sub \in Sublayers}
    ELSE {<<Gemma2CompactKey(i, Gemma2Kinds[k], sub), k>> :
             i \in 0..((NLayers \div 2) - 1), k \in DOMAIN Gemma2Kinds,
             sub \in Sublayers}

\* C26: in the dual-sublayer hook table, for every layer count, scan mode and
\* direction, the local and the global query-kernel key of every layer (or
\* the stacked ones) hold the list reshape_kernel, scale_query_layer in that
\* order; every other per-layer key holds one transform, reshape_kernel for
\* the key/value/out/mlp kernels and scale_rmsnorm_layer for the norm scales;
\* the final norm scale holds scale_rmsnorm_layer and the token embedding
\* pad_hf_embedding_layer; the table has no other key.
C26_QueryReshapeThenRescale ==
    (HooksBuilt /\ IsGemma2) =>
        /\ DOMAIN TheHooks =
               Gemma2StaticKeys \cup {kk[1] : kk \in Gemma2KeyKinds}
        /\ \A kk \in Gemma2KeyKinds :
               TheHooks[kk[1]] = Gemma2ExpectedHook(Gemma2Kinds[kk[2]])
        /\ TheHooks["params-token_embedder-embedding"] =
               [list |-> FALSE, fns |-> <<"pad_hf_embedding_layer">>]
        /\ TheHooks["params-decoder-decoder_norm-scale"] =
               [list |-> FALSE, fns |-> <<"scale_rmsnorm_layer">>]

\* an unscanned table of two compact layers, built for saving: the local
\* query kernel of layers_1 is reshaped, then rescaled; its key kernel is
\* only reshaped
C26_Witness ==
    /\ HooksBuilt /\ IsGemma2 /\ ~scan_layers /\ saving_to_hf /\ NLayers >= 4
    /\ TheHooks["params-decoder-layers_1-self_attention_local-query-kernel"].fns[1]
           = "reshape_kernel"
    /\ TheHooks["params-decoder-layers_1-self_attention_local-query-kernel"].fns[2]
           = "scale_query_layer"
    /\ Len(TheHooks["params-decoder-layers_1-self_attention_local-key-kernel"].fns) = 1

\* C27: for both families, every layer count, scan mode and direction, every
\* key of the hook table is a key of the mapping table built with the same
\* config and scan_layers.
C27_HookKeysMapped ==
    (MappingBuilt /\ HooksBuilt) => DOMAIN TheHooks \subseteq DOMAIN TheMapping

\* ------------------------------------------------------- transform claims
Applied  == output_tensor # None
Output   == output_tensor[1]
Inverted == restored_tensor # None
Restored == restored_tensor[1]

\* C15: for every tensor x of shape S and every target shape T with the same
\* element count, the kernel reshape of either direction returns a tensor of
\* shape T, and converting that result back with the other direction and
\* target shape S returns x.
C15_ReshapeInverse ==
    (/\ hook_fn = "reshape_kernel" /\ Applied
     /\ Size(target_shape) = Size(input_tensor.shape)) =>
        /\ Ok(Output)
        /\ Output.shape = target_shape
        /\ Inverted => Restored = input_tensor

\* a 3-axis kernel flattened to 2 axes with its elements reordered, and back
C15_Witness ==
    /\ hook_fn = "reshape_kernel" /\ saving_to_hf /\ Inverted
    /\ input_tensor.shape = <<1, 2, 3>> /\ target_shape = <<3, 2>>
    /\ Output.data # input_tensor.data
    /\ Restored = input_tensor

\* C16: converting a 2-D tensor of shape [r, c] from the compact format into a
\* target shape [R, C] with R >= r and C >= c gives a tensor of shape [R, C]
\* whose top-left r x c block is the input times the scale factor and whose
\* other elements are zero; converting that back to shape [r, c] returns the
\* input (the scale factor being exactly invertible).
C16_PadCrop ==
    (/\ hook_fn = "pad_hf_embedding_layer" /\ ~saving_to_hf /\ Applied
     /\ target_shape[1] >= input_tensor.shape[1]
     /\ target_shape[2] >= input_tensor.shape[2]) =>
        /\ Ok(Output)
        /\ Output.shape = target_shape
        /\ \A i \in 0..(target_shape[1] - 1) : \A j \in 0..(target_shape[2] - 1) :
              At(Output, <<i, j>>) =
                  IF i < input_tensor.shape[1] /\ j < input_tensor.shape[2]
                  THEN Times(At(input_tensor, <<i, j>>), Sqrt(model_config.hidden_size))
                  ELSE Rat(0, 1)
        /\ Inverted => Restored = input_tensor

\* a 1 x 2 table padded to 2 x 3 with scale factor 3, and cropped back
C16_Witness ==
    /\ hook_fn = "pad_hf_embedding_layer" /\ ~saving_to_hf /\ Inverted
    /\ model_config.hidden_size = 9
    /\ input_tensor.shape = <<1, 2>> /\ target_shape = <<2, 3>>
    /\ Output.data = <<Rat(0, 1), Rat(3, 1), Rat(0, 1), Rat(0, 1), Rat(0, 1), Rat(0, 1)>>
    /\ Restored = input_tensor

\* C17: every transform, in either direction, raises when the element count of
\* target_shape differs from the element count of its input (the embedding
\* pad / crop, which changes the count by design, aside), and a transform that
\* returns does return a tensor of shape target_shape.
C17_ShapeChecked ==
    Applied =>
        /\ (/\ hook_fn # "pad_hf_embedding_layer"
            /\ Size(target_shape) # Size(input_tensor.shape)) => ~Ok(Output)
        /\ Ok(Output) => Output.shape = target_shape

\* --------------------------------------------------------- adapter claims
Numeric(leaf) ==
    leaf.type \in {"jax.Array", "np.ndarray", "np.float32", "int", "float"}
NumericPaths == {p \in DOMAIN values : Numeric(values[p])}
OtherPaths   == {p \in DOMAIN values : ~Numeric(values[p])}
\* the name a variable at a path must carry: the segments joined with "-"
ExpectedName ==
    (<<"decoder">> :> "decoder") @@
    (<<"decoder", "layers">> :> "decoder-layers") @@
    (<<"decoder", "layers", "kernel">> :> "decoder-layers-kernel") @@
    (<<"decoder", "scale">> :> "decoder-scale") @@
    (<<"token_embedder">> :> "token_embedder") @@
    (<<"token_embedder", "embedding">> :> "token_embedder-embedding")
\* the variable of a numeric leaf, and the tree the call must produce
ExpectedVariable(p) ==
    [type |-> "KerasVariable", shape |-> values[p].shape,
     initializer |-> values[p], trainable |-> trainable, name |-> ExpectedName[p]]
ExpectedTree ==
    [p \in DOMAIN values |->
        IF Numeric(values[p]) THEN ExpectedVariable(p) ELSE values[p]]
OrderedPaths == SelectSeq(PathOrder, LAMBDA p : p \in DOMAIN values)

\* C18: _create_variables creates exactly one variable per numeric leaf, named
\* by the leaf's path segments joined with "-" and carrying the trainable
\* flag, returns the flattened tree of the results, and assigns the result
\* tree to params only when trainable is True and to state only when it is
\* False, leaving the other registry as it was.
C18_OneVariablePerLeaf ==
    adapt.called =>
        /\ adapt.error = ""
        /\ Len(weights) = Cardinality(NumericPaths)
        /\ \A p \in NumericPaths :
              Cardinality({i \in DOMAIN weights : weights[i] = ExpectedVariable(p)}) = 1
        /\ adapt.returned = [i \in DOMAIN OrderedPaths |-> ExpectedTree[OrderedPaths[i]]]
        /\ trainable => params = Some(ExpectedTree) /\ state = adapt.before.state
        /\ ~trainable => state = Some(ExpectedTree) /\ params = adapt.before.params

\* a trainable tree with a nested array leaf, called on a layer whose state
\* registry was already set
C18_Witness ==
    /\ adapt.called /\ trainable
    /\ Cardinality(NumericPaths) = 2
    /\ <<"decoder", "layers", "kernel">> \in DOMAIN values
    /\ values[<<"decoder", "layers", "kernel">>].type = "jax.Array"
    /\ \E i \in DOMAIN weights :
          weights[i].name = "decoder-layers-kernel" /\ weights[i].trainable
    /\ adapt.before.state = Some(EarlierTree)
    /\ state = Some(EarlierTree)
    /\ params # adapt.before.params

\* C19 as stated: adaptation fails with a type-mismatch error whenever the
\* pytree has a leaf that is neither array-like nor scalar-like.
C19_AsStated ==
    (adapt.called /\ OtherPaths # {}) => adapt.error = "TypeError"

\* C19: adaptation does not fail on such a leaf: the leaf is passed through
\* unchanged into the result tree and the returned list, no variable is
\* created for it, and the registration of the other leaves completes.
C19_PassThrough ==
    (adapt.called /\ OtherPaths # {}) =>
        /\ adapt.error = ""
        /\ LET registry == IF trainable THEN params ELSE state
           IN  /\ registry # None
               /\ DOMAIN registry[1] = DOMAIN values
               /\ \A p \in OtherPaths : registry[1][p] = values[p]
        /\ \A p \in OtherPaths :
              /\ \E i \in DOMAIN adapt.returned : adapt.returned[i] = values[p]
              /\ \A i \in DOMAIN weights : weights[i].name # ExpectedName[p]
        /\ Len(weights) = Cardinality(NumericPaths)

\* a string leaf ahead of a numeric leaf: both are in the returned list
C19_Witness ==
    /\ adapt.called /\ adapt.error = ""
    /\ DOMAIN values = {<<"decoder">>, <<"token_embedder">>}
    /\ values[<<"decoder">>].type = "str"
    /\ values[<<"token_embedder">>].type = "np.ndarray"
    /\ adapt.returned[1] = LeafOf("str")
    /\ Len(weights) = 1 /\ weights[1].name = "token_embedder"

\* --------------------------------------------------------- forward claims
ContextsActive ==
    /\ mesh_stack # <<>> /\ mesh_stack[Len(mesh_stack)] = "mesh"
    /\ axis_rules = "config.logical_axis_rules"
ContextsAsOutside ==
    /\ mesh_stack = fwd.outer.mesh_stack
    /\ axis_rules = fwd.outer.axis_rules

\* C20: the mesh and the axis-rules context are active while the native module
\* call runs and only then: whenever no call is running, after any sequence of
\* forward calls that returned or raised, both are as the caller had them.
C20_ScopedContexts ==
    /\ fwd.pc = "module" => ContextsActive
    /\ fwd.pc = "idle" => ContextsAsOutside /\ ~ContextsActive

\* a call that raised and a call that returned, inside a caller's own mesh
C20_Witness ==
    /\ fwd.pc = "idle" /\ Len(fwd_log) = 2
    /\ fwd_log[1].outcome = "raised" /\ fwd_log[2].outcome = "returned"
    /\ fwd.outer.mesh_stack = <<"outer_mesh">>
    /\ mesh_stack = <<"outer_mesh">> /\ axis_rules = "outer_rules"

TypeOKGen == pc \in {"idle", "loop", "exit", "done", "error"}
====
